---------------------------- MODULE Spec2Model ----------------------------
(***************************************************************************)
(* Verification model of the QA documentation generator                    *)
(* (pangd6/withinflo-aiagent).                                             *)
(*                                                                         *)
(* Three state machines share this module, each with its own               *)
(* specification:                                                          *)
(*   - the job orchestrator (worker/tasks.py process_job / process_url,    *)
(*     crawler/website_analyzer.py analyze_url / initialize / close,       *)
(*     db/mongodb.py update_job_status):  Spec, SpecStoreOk                *)
(*   - the rate limiter (db/redis_client.py check_rate_limit):             *)
(*     SpecLimiter (one caller), SpecLimiterConc (interleaved callers)     *)
(*   - the test-case synthesizer (analysis/test_case_generator.py):        *)
(*     SpecSynth                                                           *)
(* A specification fixes the variables of the other machines in its Init   *)
(* and never changes them.                                                 *)
(***************************************************************************)
EXTENDS Integers, Sequences, FiniteSets, TLC

VARIABLES
    \* ---- job orchestrator -------------------------------------------
    storeFaults,   \* environment: may a status update fail to reach the store
    urls,          \* job["urls"], the listed URLs in order
    jobStatus,     \* stored job record: "status"
    jobMessage,    \* stored job record: "message"
    mongoConn,     \* mongodb.jobs_collection is not None
    lastUpdate,    \* return value of the latest update_job_status call
    pc,            \* position of the worker inside process_job
    idx,           \* 1-based index of the URL the for-loop is at
    results,       \* process_job's local list `results`
    ret,           \* what process_job returned
    exc,           \* text of the exception caught by process_job
    docs,          \* URLs (indices) with a document in qa_docs_collection
    browser,       \* WebsiteAnalyzer.browser
    context,       \* WebsiteAnalyzer.context
    playwright,    \* WebsiteAnalyzer.playwright
    page,          \* analyze_url's local `page`
    auTitle,       \* analyze_url's local `page_title`
    auElems,       \* analyze_url's local `elements` (their number)
    auRet,         \* pending outcome of analyze_url
    auEvent,       \* what went wrong in the current analyze_url call
    auTrace,       \* the steps the current analyze_url call has executed
    zeroAt,        \* indices of the URLs whose analysis yielded no element
    attempted,     \* indices of the URLs process_url was called for
    \* ---- rate limiter (Redis sorted set rate_limit:<domain>) ----------
    clock,         \* wall-clock time in seconds (time.time())
    limit,         \* requests_per_minute passed to every call
    active,        \* the workers that call check_rate_limit
    zset,          \* per domain: the sorted set's (member, score) entries
    expireAt,      \* per domain: when the key expires (NoExpiry: no TTL)
    rpc,           \* per worker: position inside check_rate_limit
    rdom,          \* per worker: the call's `domain`
    rnow,          \* per worker: the call's local `now`
    rcount,        \* per worker: the call's local `count`
    grants,        \* history: the calls that returned True, in order
    rejects,       \* history: the calls that returned False, in order
    rcalls,        \* number of calls started
    rticks,        \* number of clock advances
    rbefore,       \* per worker: the sorted sets and expiries at call entry
    \* ---- test-case synthesizer -------------------------------------
    sKey,          \* TestCaseGenerator.api_key is set
    sElems,        \* generate_test_cases' argument `elements`
    sPc,           \* position inside generate_test_cases
    sIdx,          \* index of the element the for-loop is at
    sAll,          \* generate_test_cases' local `all_test_cases`
    sCalls,        \* history: the model calls made, in order
    sFresh,        \* number of uuid4 tokens drawn so far
    sOut,          \* what generate_test_cases returned
    sLog,          \* history: each reply of _call_llm_api and the cases
                   \* its caller returned for it
    \* ---- snapshot cache ---------------------------------------------
    cConn,         \* RedisClient.client is connected
    cClock,        \* the Redis server's time, in seconds
    cStore,        \* the dom_snapshot:<url> keys
    cPuts,         \* history: the latest cache_dom_snapshot call per URL
    cLast,         \* history: the latest operation and what it returned
    cOps,          \* number of cache calls made
    cTicks,        \* number of clock advances
    \* ---- two jobs at the same time ----------------------------------
    hPool,         \* the worker's execution pool
    hLeft,         \* per job: URLs not yet processed
    hPc,           \* per job: position inside process_url / analyze_url
    hBrowser,      \* per worker process: website_analyzer.browser
    hContext,      \* per worker process: website_analyzer.context
    hInFlight,     \* jobs whose analyze_url has a page open
    hFailed,       \* history: jobs with a URL that failed on the context
    \* ---- element classifier -----------------------------------------
    ePage,         \* the rendered page: its nodes in document order
    eBadRules,     \* the rules whose query raises on this page
    eFresh,        \* number of uuid4 identifiers drawn so far
    eRuns,         \* history: what each _extract_ui_elements call returned
    \* ---- job submission ---------------------------------------------
    aJobs,         \* the jobs collection: status per job id, or "absent"
    aQueue,        \* the broker queue: job ids of the waiting runs
    aEnqueued,     \* history: every process_job.delay(job_id) that worked
    aStarted,      \* job ids whose process_job run has started
    aResp,         \* history: the answer to each POST /jobs
    aOutcomes,     \* history: how far each POST /jobs got
    \* ---- authentication setup ---------------------------------------
    tkConfig,      \* analyze_url's auth_config
    tkUrl,         \* analyze_url's url, the address to analyse
    tkPc,          \* position: start, page, authed, raised, navigated
    tkPageUrl,     \* page.url
    tkCookies,     \* the cookies of the browser context
    tkHeaders,     \* the page's extra HTTP headers
    tkCreds,       \* the page's HTTP credentials
    \* ---- one job's crawl under the rate limiter -----------------------
    nDefault,      \* DEFAULT_RATE_LIMIT_REQUESTS_PER_MINUTE of the worker
    nStored,       \* the rate_limit field of the job record
    nUrls,         \* the domains of the job's URLs, in list order
    nIdx,          \* position in nUrls
    nPc,           \* "check" or "goto"
    nClock,        \* time in seconds
    nZset,         \* per domain: the limiter's sorted set
    nExpire,       \* per domain: the key's expiry, or NoExpiry
    nNavs,         \* history: the navigations issued, [dom, t]
    nChecks,       \* history: the check_rate_limit calls made
    nTicks         \* number of clock advances

jobVars == <<storeFaults, urls, jobStatus, jobMessage, mongoConn, lastUpdate,
             pc, idx, results, ret, exc, docs, browser, context, playwright,
             page, auTitle, auElems, auRet, auEvent, auTrace, zeroAt,
             attempted>>

rlVars == <<clock, limit, active, zset, expireAt, rpc, rdom, rnow, rcount,
            grants, rejects, rcalls, rticks, rbefore>>

synVars == <<sKey, sElems, sPc, sIdx, sAll, sCalls, sFresh, sOut, sLog>>

cacheVars == <<cConn, cClock, cStore, cPuts, cLast, cOps, cTicks>>

sharedVars == <<hPool, hLeft, hPc, hBrowser, hContext, hInFlight, hFailed>>

extractVars == <<ePage, eBadRules, eFresh, eRuns>>

apiVars == <<aJobs, aQueue, aEnqueued, aStarted, aResp, aOutcomes>>

authVars == <<tkConfig, tkUrl, tkPc, tkPageUrl, tkCookies, tkHeaders, tkCreds>>

crawlVars == <<nDefault, nStored, nUrls, nIdx, nPc, nClock, nZset, nExpire,
               nNavs, nChecks, nTicks>>

vars == <<jobVars, rlVars, synVars, cacheVars, sharedVars, extractVars,
          apiVars, authVars, crawlVars>>

nonJobVars == <<rlVars, synVars, cacheVars, sharedVars, extractVars,
    apiVars, authVars, crawlVars>>
nonLimiterVars == <<jobVars, synVars, cacheVars, sharedVars, extractVars,
    apiVars, authVars, crawlVars>>
nonSynthVars == <<jobVars, rlVars, cacheVars, sharedVars, extractVars,
    apiVars, authVars, crawlVars>>
nonCacheVars == <<jobVars, rlVars, synVars, sharedVars, extractVars,
    apiVars, authVars, crawlVars>>
nonSharedVars == <<jobVars, rlVars, synVars, cacheVars, extractVars,
    apiVars, authVars, crawlVars>>
nonExtractVars == <<jobVars, rlVars, synVars, cacheVars, sharedVars,
    apiVars, authVars, crawlVars>>
nonApiVars == <<jobVars, rlVars, synVars, cacheVars, sharedVars, extractVars,
    authVars, crawlVars>>
nonAuthVars == <<jobVars, rlVars, synVars, cacheVars, sharedVars, extractVars,
    apiVars, crawlVars>>
nonCrawlVars == <<jobVars, rlVars, synVars, cacheVars, sharedVars, extractVars,
    apiVars, authVars>>

(***************************************************************************)
(* Bounds of the model.                                                    *)
(***************************************************************************)
MaxUrls == 3
MaxElems == 1

(***************************************************************************)
(* JobStatus (models/schema.py).                                           *)
(***************************************************************************)
PENDING == "pending"
PROCESSING == "processing"
COMPLETED == "completed"
FAILED == "failed"
JobStatus == {PENDING, PROCESSING, COMPLETED, FAILED}
Terminal == {COMPLETED, FAILED}

(***************************************************************************)
(* Status messages.  A message is the text the code formats; the model     *)
(* keeps the format's name and the values it interpolates.                 *)
(***************************************************************************)
\* An exception: the format of its text and the URL the text interpolates
\* (0 when it interpolates none).
Exc(kind, url) == [kind |-> kind, url |-> url]
NoExc == Exc("none", 0)

NoMessage == [kind |-> "none", n |-> 0, m |-> 0, text |-> NoExc]
PartialMessage(n, m) ==
    [kind |-> "Partially completed: n/m URLs processed", n |-> n, m |-> m,
     text |-> NoExc]
AllFailedMessage ==
    [kind |-> "All URLs failed processing", n |-> 0, m |-> 0, text |-> NoExc]
JobErrorMessage(e) ==
    [kind |-> "Error processing job: e", n |-> 0, m |-> 0, text |-> e]

(***************************************************************************)
(* MongoDB.update_job_status: the update reaches the store when the        *)
(* collection handle exists and update_one does not raise (ok); any        *)
(* exception is swallowed and the call returns False.  The message is      *)
(* written only when one is given.                                         *)
(***************************************************************************)
UpdateReaches(conn, ok) == conn /\ ok

\* Mutant: the message given to update_job_status is never written.
MessageWritten_Dropped(old, message) == old

MessageWritten(old, message) ==
    IF message # NoMessage THEN message ELSE old

StatusAfterUpdate(conn, ok, status) ==
    IF UpdateReaches(conn, ok) THEN status ELSE jobStatus

MessageAfterUpdate(conn, ok, message) ==
    IF UpdateReaches(conn, ok) THEN MessageWritten(jobMessage, message)
    ELSE jobMessage

\* The outcomes update_one can have under the specification's environment.
UpdateOutcomes == IF storeFaults THEN BOOLEAN ELSE {TRUE}

(***************************************************************************)
(* _ensure_connections: mongodb.connect() then redis_client.connect();     *)
(* either may raise, and the exception is re-raised.                       *)
(***************************************************************************)
ConnOutcomes == {"ok", "mongo_fail", "redis_fail"}

ConnError(c) ==
    IF c = "mongo_fail" THEN Exc("mongo connection error", 0)
    ELSE Exc("redis connection error", 0)

\* jobs_collection after the call: set once mongodb.connect() has succeeded.
MongoConnAfter(c) == IF c = "mongo_fail" THEN mongoConn ELSE TRUE

(***************************************************************************)
(* WebsiteAnalyzer.initialize: start playwright, launch the browser, open  *)
(* a context.  On a failure playwright is stopped and the exception is     *)
(* re-raised; a browser object assigned before the failure stays assigned  *)
(* (truthy) although its connection is gone, which the model calls         *)
(* "closed".                                                               *)
(***************************************************************************)
InitOutcomes == {"ok", "start_fail", "launch_fail", "context_fail"}

PlaywrightAfterInit(o) ==
    IF o = "ok" THEN "started"
    ELSE IF o = "start_fail" THEN playwright
    ELSE "stopped"

BrowserAfterInit(o) ==
    IF o = "ok" THEN "live"
    ELSE IF o = "context_fail" THEN "closed"
    ELSE browser

ContextAfterInit(o) == IF o = "ok" THEN "live" ELSE context

\* analyze_url initializes only when self.browser is falsy.
NeedsInitialize == browser = "none"

(***************************************************************************)
(* WebsiteAnalyzer.close: closes context, browser and playwright when      *)
(* they are set, in that order, and leaves all three attributes assigned.  *)
(* failAt names the call that raised ("none": no call raised); what comes  *)
(* after the raising call is not executed.                                 *)
(***************************************************************************)
CloseOutcomes ==
    {"none"} \cup (IF context # "none" THEN {"context"} ELSE {})
             \cup (IF browser # "none" THEN {"browser"} ELSE {})
             \cup (IF playwright # "none" THEN {"playwright"} ELSE {})

ContextAfterClose(failAt) ==
    IF context # "none" /\ failAt # "context" THEN "closed" ELSE context

BrowserAfterClose(failAt) ==
    IF browser # "none" /\ failAt \notin {"context", "browser"}
    THEN "closed" ELSE browser

PlaywrightAfterClose(failAt) ==
    IF playwright # "none" /\ failAt = "none" THEN "stopped" ELSE playwright

(***************************************************************************)
(* analyze_url: outcome values.                                            *)
(***************************************************************************)
NoTitle == "None"
Titles == {"Example", ""}

AuPending == [kind |-> "pending", title |-> NoTitle, elems |-> 0, e |-> NoExc]
AuReturn(t, k) == [kind |-> "return", title |-> t, elems |-> k, e |-> NoExc]
AuRaise(e) == [kind |-> "raise", title |-> NoTitle, elems |-> 0, e |-> e]
\* `return None, []`
NoneEmpty == AuReturn(NoTitle, 0)

\* page.goto: raises (timeout, network error), returns no response, or
\* returns a response with an HTTP status.
HttpStatuses == {200, 399, 400, 404, 500}
NavOutcomes ==
    {[kind |-> "raise", status |-> 0], [kind |-> "none", status |-> 0]}
    \cup {[kind |-> "response", status |-> s] : s \in HttpStatuses}

\* Mutant: the status comparison is strict, so a 400 response is accepted.
ResponseRejected_Strict(r) ==
    r.kind = "none" \/ (r.kind = "response" /\ r.status > 400)

\* `if not response` / `if response.status >= 400`
ResponseRejected(r) ==
    r.kind = "none" \/ (r.kind = "response" /\ r.status >= 400)

\* context.new_page() works only on a live context: a closed context raises
\* and a context of None raises AttributeError.
ContextUsable == context = "live"

(***************************************************************************)
(* process_url: outcome records.                                           *)
(***************************************************************************)
\* An outcome that is filed under the job's first URL.
UrlCompleted_FirstUrl(u, k, tcs) ==
    [status |-> "completed", url |-> urls[1], error |-> NoExc,
     prefixed |-> FALSE, element_count |-> k, test_case_count |-> tcs]

UrlCompleted(u, k, tcs) ==
    [status |-> "completed", url |-> u, error |-> NoExc, prefixed |-> FALSE,
     element_count |-> k, test_case_count |-> tcs]
\* error_msg = f"Error processing URL {url}: {str(e)}"
UrlFailed(u, e) ==
    [status |-> "failed", url |-> u, error |-> e, prefixed |-> TRUE,
     element_count |-> 0, test_case_count |-> 0]

\* A process_url that accepts an empty element list.
NoElementsFound_Never(k) == k < 0

\* `if not elements: raise Exception(f"No UI elements found at URL: {url}")`
NoElementsFound(k) == k = 0
NoElementsError(u) == Exc("No UI elements found at URL: u", u)

(***************************************************************************)
(* process_job: the aggregation after the loop.                            *)
(***************************************************************************)
RECURSIVE CountCompleted(_)
CountCompleted(rs) ==
    IF rs = <<>> THEN 0
    ELSE (IF Head(rs).status = "completed" THEN 1 ELSE 0)
         + CountCompleted(Tail(rs))

\* Mutant: a single success does not count as partial completion.
FinalStatus_OffByOne(success_count, n) ==
    IF success_count = n THEN COMPLETED
    ELSE IF success_count > 1 THEN COMPLETED
    ELSE FAILED

\* Mutant: a job none of whose URLs succeeded is put back to pending.
FinalStatus_Requeue(success_count, n) ==
    IF success_count = n THEN COMPLETED
    ELSE IF success_count > 0 THEN COMPLETED
    ELSE PENDING

FinalStatus(success_count, n) ==
    IF success_count = n THEN COMPLETED
    ELSE IF success_count > 0 THEN COMPLETED
    ELSE FAILED

FinalMessage(success_count, n) ==
    IF success_count = n THEN NoMessage
    ELSE IF success_count > 0 THEN PartialMessage(success_count, n)
    ELSE AllFailedMessage

SummaryStatus(success_count, n) ==
    IF success_count = n THEN "completed"
    ELSE IF success_count > 0 THEN "partially_completed"
    ELSE "failed"

NoReturn ==
    [kind |-> "none", status |-> "none", url_count |-> 0, success_count |-> 0,
     results |-> <<>>, error |-> NoMessage]
Summary(st, n, sc, rs) ==
    [kind |-> "summary", status |-> st, url_count |-> n, success_count |-> sc,
     results |-> rs, error |-> NoMessage]
ErrorReturn(msg) ==
    [kind |-> "error", status |-> "failed", url_count |-> 0,
     success_count |-> 0, results |-> <<>>, error |-> msg]

\* Mutant: the loop stops at the first failed URL.
UrlsLeft_StopOnFailure(i, n) ==
    i <= n /\ \A j \in 1..Len(results) : results[j].status # "failed"

\* `for url in urls`: the loop goes on while URLs are left.
UrlsLeft(i, n) == i <= n

(***************************************************************************)
(* The job orchestrator: Init.  The job record exists as create_job wrote  *)
(* it (status pending, no message), process_job is enqueued for it, and    *)
(* the worker process is fresh (no store handle, no browser).              *)
(***************************************************************************)
UrlList(n) == [i \in 1..n |-> i]

JobInit(faults) ==
    /\ storeFaults = faults
    /\ \E n \in 0..MaxUrls : urls = UrlList(n)
    /\ jobStatus = PENDING
    /\ jobMessage = NoMessage
    /\ mongoConn = FALSE
    /\ lastUpdate = FALSE
    /\ pc = "queued"
    /\ idx = 1
    /\ results = <<>>
    /\ ret = NoReturn
    /\ exc = NoExc
    /\ docs = {}
    /\ browser = "none"
    /\ context = "none"
    /\ playwright = "none"
    /\ page = "none"
    /\ auTitle = NoTitle
    /\ auElems = 0
    /\ auRet = AuPending
    /\ auEvent = "none"
    /\ auTrace = <<>>
    /\ zeroAt = {}
    /\ attempted = {}

\* One call of mongodb.update_job_status(job_id, status, message).
UpdateJobStatus(conn, ok, status, message) ==
    /\ jobStatus' = StatusAfterUpdate(conn, ok, status)
    /\ jobMessage' = MessageAfterUpdate(conn, ok, message)
    /\ lastUpdate' = UpdateReaches(conn, ok)

analyzerVars == <<browser, context, playwright>>
auVars == <<page, auTitle, auElems, auRet, auEvent, auTrace>>
storeVars == <<jobStatus, jobMessage, lastUpdate>>

(***************************************************************************)
(* process_job, lines 136-150: connect, load the job, set it Processing.   *)
(* An exception (connection failure, job not found) goes to the handler    *)
(* of line 182.  get_job returns None also when find_one raises.           *)
(***************************************************************************)
PJ_Begin ==
    /\ pc = "queued"
    /\ \E c \in ConnOutcomes, found \in BOOLEAN, ok \in UpdateOutcomes :
         /\ mongoConn' = MongoConnAfter(c)
         /\ IF c # "ok"
            THEN /\ exc' = ConnError(c)
                 /\ pc' = "pj_except"
                 /\ UNCHANGED storeVars
            ELSE IF ~found
            THEN /\ exc' = Exc("Job not found: job_id", 0)
                 /\ pc' = "pj_except"
                 /\ UNCHANGED storeVars
            ELSE /\ UpdateJobStatus(mongoConn', ok, PROCESSING, NoMessage)
                 /\ pc' = "loop"
                 /\ UNCHANGED exc
    /\ UNCHANGED nonJobVars
    /\ UNCHANGED <<storeFaults, urls, idx, results, ret, docs, analyzerVars,
                   auVars, zeroAt, attempted>>

(***************************************************************************)
(* process_job, lines 182-186: the top-level handler.                      *)
(***************************************************************************)
PJ_Except ==
    /\ pc = "pj_except"
    /\ \E ok \in UpdateOutcomes :
         UpdateJobStatus(mongoConn, ok, FAILED, JobErrorMessage(exc))
    /\ ret' = ErrorReturn(JobErrorMessage(exc))
    /\ pc' = "done"
    /\ UNCHANGED nonJobVars
    /\ UNCHANGED <<storeFaults, urls, mongoConn, idx, results, exc, docs,
                   analyzerVars, auVars, zeroAt, attempted>>

(***************************************************************************)
(* process_url, lines 57-62, called by the loop for urls[idx]: connect     *)
(* and set the job Processing.  A connection failure is caught at line     *)
(* 117 and is this URL's outcome.                                          *)
(***************************************************************************)
PU_Begin ==
    /\ pc = "loop"
    /\ UrlsLeft(idx, Len(urls))
    /\ attempted' = attempted \cup {idx}
    /\ \E c \in ConnOutcomes, ok \in UpdateOutcomes :
         /\ mongoConn' = MongoConnAfter(c)
         /\ IF c # "ok"
            THEN /\ results' = Append(results, UrlFailed(urls[idx], ConnError(c)))
                 /\ idx' = idx + 1
                 /\ pc' = "loop"
                 /\ UNCHANGED <<storeVars, auVars>>
            ELSE /\ UpdateJobStatus(mongoConn', ok, PROCESSING, NoMessage)
                 /\ pc' = "au_begin"
                 /\ page' = "none"
                 /\ auTitle' = NoTitle
                 /\ auElems' = 0
                 /\ auRet' = AuPending
                 /\ auEvent' = "none"
                 /\ auTrace' = <<>>
                 /\ UNCHANGED <<results, idx>>
    /\ UNCHANGED nonJobVars
    /\ UNCHANGED <<storeFaults, urls, ret, exc, docs, analyzerVars, zeroAt>>

(***************************************************************************)
(* analyze_url, lines 131-145: snapshot lookup, rate-limit check (one      *)
(* 60 s sleep when rejected), lazy initialize.  All of it is outside the   *)
(* try block: an exception of the key-value store or of initialize         *)
(* leaves analyze_url.                                                     *)
(***************************************************************************)
\* One executed step of analyze_url and how it ended.
Step(s, res) == [step |-> s, res |-> res]

\* get_dom_snapshot and check_rate_limit do not catch the client's errors.
RedisOutcomes == {"ok", "lookup_raise", "check_raise"}

RedisFailureSteps(redis) ==
    IF redis = "lookup_raise" THEN <<Step("cache_lookup", "raise")>>
    ELSE <<Step("cache_lookup", "ok"), Step("rate_check", "raise")>>

\* A caller that asks the limiter again after its sleep.
RateLimitSteps_AskAgain(admitted) ==
    IF admitted THEN <<Step("rate_check", "true")>>
    ELSE <<Step("rate_check", "false"), Step("sleep60", "ok"),
           Step("rate_check", "true")>>

\* Lines 141-145: one check_rate_limit call; `await asyncio.sleep(60)` when
\* it returned False.
RateLimitSteps(admitted) ==
    IF admitted THEN <<Step("rate_check", "true")>>
    ELSE <<Step("rate_check", "false"), Step("sleep60", "ok")>>

AU_Begin ==
    /\ pc = "au_begin"
    /\ \E redis \in RedisOutcomes, admitted \in BOOLEAN, o \in InitOutcomes :
         IF redis # "ok"
         THEN /\ auRet' = AuRaise(Exc("redis error", 0))
              /\ auEvent' = "redis_exc"
              /\ auTrace' = RedisFailureSteps(redis)
              /\ pc' = "pu_after"
              /\ UNCHANGED analyzerVars
         ELSE IF ~NeedsInitialize
         THEN /\ pc' = "au_page"
              /\ auTrace' = <<Step("cache_lookup", "ok")>>
                                \o RateLimitSteps(admitted)
              /\ UNCHANGED <<analyzerVars, auRet, auEvent>>
         ELSE /\ playwright' = PlaywrightAfterInit(o)
              /\ browser' = BrowserAfterInit(o)
              /\ context' = ContextAfterInit(o)
              /\ auTrace' = <<Step("cache_lookup", "ok")>>
                                \o RateLimitSteps(admitted)
                                \o <<Step("initialize", IF o = "ok" THEN "ok"
                                                        ELSE "raise")>>
              /\ IF o = "ok"
                 THEN /\ pc' = "au_page"
                      /\ UNCHANGED <<auRet, auEvent>>
                 ELSE /\ auRet' = AuRaise(Exc("initialize failed", 0))
                      /\ auEvent' = "init_exc"
                      /\ pc' = "pu_after"
    /\ UNCHANGED nonJobVars
    /\ UNCHANGED <<storeFaults, urls, storeVars, mongoConn, idx, results, ret,
                   exc, docs, page, auTitle, auElems, zeroAt, attempted>>

(***************************************************************************)
(* analyze_url, lines 151-156: open a page in the context and set up       *)
(* authentication; both are inside the try block.                          *)
(***************************************************************************)
AU_Page ==
    /\ pc = "au_page"
    /\ \E pageOk \in BOOLEAN, authOk \in BOOLEAN :
         IF ~ContextUsable \/ ~pageOk
         THEN /\ auEvent' = "newpage_exc"
              /\ auRet' = NoneEmpty
              /\ auTrace' = Append(auTrace, Step("new_page", "raise"))
              /\ pc' = "au_finally"
              /\ UNCHANGED page
         ELSE /\ page' = "open"
              /\ auTrace' = auTrace \o <<Step("new_page", "ok"),
                                Step("auth", IF authOk THEN "ok" ELSE "raise")>>
              /\ IF authOk
                 THEN /\ pc' = "au_goto"
                      /\ UNCHANGED <<auRet, auEvent>>
                 ELSE /\ auEvent' = "auth_exc"
                      /\ auRet' = NoneEmpty
                      /\ pc' = "au_finally"
    /\ UNCHANGED nonJobVars
    /\ UNCHANGED <<storeFaults, urls, storeVars, mongoConn, idx, results, ret,
                   exc, docs, analyzerVars, auTitle, auElems, zeroAt,
                   attempted>>

(***************************************************************************)
(* analyze_url, lines 158-167: navigate and check the response.            *)
(***************************************************************************)
AU_Goto ==
    /\ pc = "au_goto"
    /\ \E r \in NavOutcomes :
         /\ auTrace' = Append(auTrace, Step("goto",
                IF r.kind = "raise" THEN "raise"
                ELSE IF ResponseRejected(r) THEN "rejected" ELSE "ok"))
         /\ IF r.kind = "raise"
            THEN /\ auEvent' = "nav_exc"
                 /\ auRet' = NoneEmpty
                 /\ pc' = "au_finally"
            ELSE IF ResponseRejected(r)
            THEN /\ auEvent' = IF r.kind = "none" THEN "no_response"
                               ELSE "http_error"
                 /\ auRet' = NoneEmpty
                 /\ pc' = "au_finally"
            ELSE /\ auEvent' = IF r.status >= 400 THEN "http_error"
                               ELSE "none"
                 /\ pc' = "au_read"
                 /\ UNCHANGED auRet
    /\ UNCHANGED nonJobVars
    /\ UNCHANGED <<storeFaults, urls, storeVars, mongoConn, idx, results, ret,
                   exc, docs, analyzerVars, page, auTitle, auElems, zeroAt,
                   attempted>>

(***************************************************************************)
(* analyze_url, lines 169-178: settle delay, title, element extraction.    *)
(***************************************************************************)
\* An analyzer that extracts before the page has settled.
ReadSteps_ExtractFirst(titleOk) ==
    IF titleOk
    THEN <<Step("extract", "ok"), Step("settle", "ok"), Step("title", "ok")>>
    ELSE <<Step("extract", "ok"), Step("settle", "ok"), Step("title", "raise")>>

\* Lines 170-178: asyncio.sleep(wait_for_load), page.title(),
\* _extract_ui_elements(page), which catches its own errors.
ReadSteps(titleOk) ==
    IF titleOk
    THEN <<Step("settle", "ok"), Step("title", "ok"), Step("extract", "ok")>>
    ELSE <<Step("settle", "ok"), Step("title", "raise")>>

AU_Read ==
    /\ pc = "au_read"
    /\ \E titleOk \in BOOLEAN, t \in Titles, k \in 0..MaxElems :
         IF ~titleOk
         THEN /\ auEvent' = IF auEvent = "none" THEN "title_exc" ELSE auEvent
              /\ auRet' = NoneEmpty
              /\ auTrace' = auTrace \o ReadSteps(FALSE)
              /\ pc' = "au_finally"
              /\ UNCHANGED <<auTitle, auElems>>
         ELSE /\ auTitle' = t
              /\ auElems' = k
              /\ auTrace' = auTrace \o ReadSteps(TRUE)
              /\ pc' = "au_store"
              /\ UNCHANGED <<auRet, auEvent>>
    /\ UNCHANGED nonJobVars
    /\ UNCHANGED <<storeFaults, urls, storeVars, mongoConn, idx, results, ret,
                   exc, docs, analyzerVars, page, zeroAt, attempted>>

(***************************************************************************)
(* analyze_url, lines 180-188: read the markup, store the snapshot,        *)
(* return (page_title, elements); an exception gives (None, []).           *)
(***************************************************************************)
AU_Store ==
    /\ pc = "au_store"
    /\ \E storeOk \in BOOLEAN, contentOk \in BOOLEAN :
         IF storeOk
         THEN /\ auRet' = AuReturn(auTitle, auElems)
              /\ auTrace' = auTrace \o <<Step("content", "ok"),
                                          Step("cache_store", "ok")>>
              /\ UNCHANGED auEvent
         ELSE /\ auRet' = NoneEmpty
              /\ auTrace' = IF contentOk
                             THEN auTrace \o <<Step("content", "ok"),
                                               Step("cache_store", "raise")>>
                             ELSE Append(auTrace, Step("content", "raise"))
              /\ auEvent' = IF auEvent = "none" THEN "store_exc" ELSE auEvent
    /\ pc' = "au_finally"
    /\ UNCHANGED nonJobVars
    /\ UNCHANGED <<storeFaults, urls, storeVars, mongoConn, idx, results, ret,
                   exc, docs, analyzerVars, page, auTitle, auElems, zeroAt,
                   attempted>>

(***************************************************************************)
(* analyze_url, lines 189-191: the finally clause closes the page when     *)
(* one was opened; an exception of page.close() replaces the pending       *)
(* return.                                                                 *)
(***************************************************************************)
\* A finally clause that closes the page only when nothing went wrong.
PageToClose_SuccessOnly(pg) == pg = "open" /\ auEvent = "none"

\* `if page:` (line 190): page is None until new_page() has returned.
PageToClose(pg) == pg = "open"

AU_Finally ==
    /\ pc = "au_finally"
    /\ IF PageToClose(page)
       THEN \E closeOk \in BOOLEAN :
              IF closeOk
              THEN /\ page' = "closed"
                   /\ auTrace' = Append(auTrace, Step("page_close", "ok"))
                   /\ UNCHANGED auRet
              ELSE /\ auRet' = AuRaise(Exc("page close failed", 0))
                   /\ auTrace' = Append(auTrace, Step("page_close", "raise"))
                   /\ UNCHANGED page
       ELSE UNCHANGED <<page, auRet, auTrace>>
    /\ pc' = "pu_after"
    /\ UNCHANGED nonJobVars
    /\ UNCHANGED <<storeFaults, urls, storeVars, mongoConn, idx, results, ret,
                   exc, docs, analyzerVars, auTitle, auElems, auEvent, zeroAt,
                   attempted>>

(***************************************************************************)
(* process_url, lines 70-120, after analyze_url: the zero-element check,   *)
(* synthesis (tcs test cases; generate_test_cases never raises), the save  *)
(* of the document, the finally clause that closes the analyzer, and the   *)
(* handler of line 117.  An exception of the finally clause replaces the   *)
(* pending return or exception.                                            *)
(***************************************************************************)
\* len(test_cases) of generate_test_cases: without an API key every
\* _call_llm_api returns None and the list is empty.
TestCaseCounts == IF sKey THEN 0..1 ELSE {0}

\* A process_url that treats an empty test-case list as an error.
UrlOutcome_FailOnNoCases(u, a, saveOk, tcs) ==
    IF a.kind = "raise" THEN UrlFailed(u, a.e)
    ELSE IF NoElementsFound(a.elems) THEN UrlFailed(u, NoElementsError(u))
    ELSE IF tcs = 0 THEN UrlFailed(u, Exc("no test cases", 0))
    ELSE IF ~saveOk THEN UrlFailed(u, Exc("save failed", 0))
    ELSE UrlCompleted(u, a.elems, tcs)

UrlOutcome(u, a, saveOk, tcs) ==
    IF a.kind = "raise" THEN UrlFailed(u, a.e)
    ELSE IF NoElementsFound(a.elems) THEN UrlFailed(u, NoElementsError(u))
    ELSE IF ~saveOk THEN UrlFailed(u, Exc("save failed", 0))
    ELSE UrlCompleted(u, a.elems, tcs)

PU_After ==
    /\ pc = "pu_after"
    /\ \E saveOk \in BOOLEAN, tcs \in TestCaseCounts, failAt \in CloseOutcomes :
         LET u == urls[idx]
             inner == UrlOutcome(u, auRet, saveOk, tcs)
             outcome == IF failAt = "none" THEN inner
                        ELSE UrlFailed(u, Exc("analyzer close failed", 0))
         IN /\ docs' = IF inner.status = "completed" THEN docs \cup {idx}
                       ELSE docs
            /\ results' = Append(results, outcome)
            /\ context' = ContextAfterClose(failAt)
            /\ browser' = BrowserAfterClose(failAt)
            /\ playwright' = PlaywrightAfterClose(failAt)
    /\ zeroAt' = IF auRet.kind = "return" /\ auRet.elems = 0
                 THEN zeroAt \cup {idx} ELSE zeroAt
    /\ idx' = idx + 1
    /\ pc' = "loop"
    /\ auTrace' = <<>>
    /\ UNCHANGED nonJobVars
    /\ UNCHANGED <<storeFaults, urls, storeVars, mongoConn, ret, exc, page,
                   auTitle, auElems, auRet, auEvent, attempted>>

(***************************************************************************)
(* process_job, lines 159-181: aggregate and write the final status.       *)
(***************************************************************************)
PJ_Finalize ==
    /\ pc = "loop"
    /\ ~UrlsLeft(idx, Len(urls))
    /\ LET success_count == CountCompleted(results)
           n == Len(urls)
       IN /\ \E ok \in UpdateOutcomes :
               UpdateJobStatus(mongoConn, ok, FinalStatus(success_count, n),
                               FinalMessage(success_count, n))
          /\ ret' = Summary(SummaryStatus(success_count, n), n, success_count,
                            results)
    /\ pc' = "done"
    /\ UNCHANGED nonJobVars
    /\ UNCHANGED <<storeFaults, urls, mongoConn, idx, results, exc, docs,
                   analyzerVars, auVars, zeroAt, attempted>>

(***************************************************************************)
(* The rate limiter: RedisClient.check_rate_limit over the sorted set      *)
(* rate_limit:<domain>.                                                    *)
(***************************************************************************)
MaxLimit == 2
MaxCalls == 3
MaxTicks == 2

\* `now - 60` and `expire(key, 120)`
WINDOW == 60
EXPIRY == 120
NoExpiry == -1

Domains == {"a.example", "b.example"}
Workers == {"w1", "w2"}
\* The amounts of time that pass between two steps.
TickSteps == {1, 59, 60}

\* The member check_rate_limit adds is str(now): the decimal text of the
\* clock second, the same text for every call made in that second.
Member(now) == [str |-> now]

\* A purge that keeps the entry whose score equals the upper bound.
ZRemRangeByScore_Exclusive(z, lo, hi) ==
    {e \in z : ~(e.score >= lo /\ e.score < hi)}

\* ZREMRANGEBYSCORE key lo hi
ZRemRangeByScore(z, lo, hi) == {e \in z : ~(lo <= e.score /\ e.score <= hi)}
\* ZCARD key
ZCard(z) == Cardinality(z)
\* ZADD key {member: score}: one entry per member, the score replaced.
ZAdd(z, member, score) ==
    {e \in z : e.member # member} \cup {[member |-> member, score |-> score]}

\* `if count >= requests_per_minute: return False`
LimitReached(count, requests_per_minute) == count >= requests_per_minute

\* A shared key for every domain.
RateLimitKey_Shared(domain) == "a.example"

\* key = f"rate_limit:{domain}": one sorted set per domain.
RateLimitKey(domain) == domain

\* What the store holds when a call starts.
NoSnapshot == [zset |-> <<>>, expireAt |-> <<>>]
Snapshot == [zset |-> zset, expireAt |-> expireAt]

LimiterInit(ws) ==
    /\ clock = 0
    /\ limit \in 1..MaxLimit
    /\ active = ws
    /\ zset = [d \in Domains |-> {}]
    /\ expireAt = [d \in Domains |-> NoExpiry]
    /\ rpc = [w \in Workers |-> "idle"]
    /\ rdom = [w \in Workers |-> "a.example"]
    /\ rnow = [w \in Workers |-> 0]
    /\ rcount = [w \in Workers |-> 0]
    /\ grants = <<>>
    /\ rejects = <<>>
    /\ rcalls = 0
    /\ rticks = 0
    /\ rbefore = [w \in Workers |-> NoSnapshot]

\* check_rate_limit, lines 52-53: a worker enters the call and reads the
\* clock.
RL_Call(w) ==
    /\ w \in active
    /\ rpc[w] = "idle"
    /\ rcalls < MaxCalls
    /\ \E d \in Domains : rdom' = [rdom EXCEPT ![w] = d]
    /\ rnow' = [rnow EXCEPT ![w] = clock]
    /\ rpc' = [rpc EXCEPT ![w] = "purge"]
    /\ rcalls' = rcalls + 1
    /\ rbefore' = [rbefore EXCEPT ![w] = Snapshot]
    /\ UNCHANGED <<clock, limit, active, zset, expireAt, rcount, grants,
                   rejects, rticks>>
    /\ UNCHANGED nonLimiterVars

\* check_rate_limit, line 56: remove the entries older than one minute.  A
\* sorted set left empty no longer exists, and neither does its expiry.
RL_Purge(w) ==
    /\ rpc[w] = "purge"
    /\ LET d == RateLimitKey(rdom[w])
           z == ZRemRangeByScore(zset[d], 0, rnow[w] - WINDOW)
       IN /\ zset' = [zset EXCEPT ![d] = z]
          /\ expireAt' = [expireAt EXCEPT
                            ![d] = IF z = {} THEN NoExpiry ELSE @]
    /\ rpc' = [rpc EXCEPT ![w] = "count"]
    /\ UNCHANGED <<clock, limit, active, rdom, rnow, rcount, grants, rejects,
                   rcalls, rticks, rbefore>>
    /\ UNCHANGED nonLimiterVars

\* check_rate_limit, lines 57-61: count the entries and reject at the limit.
RL_Count(w) ==
    /\ rpc[w] = "count"
    /\ LET count == ZCard(zset[RateLimitKey(rdom[w])])
       IN /\ rcount' = [rcount EXCEPT ![w] = count]
          /\ IF LimitReached(count, limit)
             THEN /\ rejects' = Append(rejects, [dom |-> rdom[w], t |-> rnow[w]])
                  /\ rpc' = [rpc EXCEPT ![w] = "idle"]
                  /\ rbefore' = [rbefore EXCEPT ![w] = NoSnapshot]
             ELSE /\ rpc' = [rpc EXCEPT ![w] = "add"]
                  /\ UNCHANGED <<rejects, rbefore>>
    /\ UNCHANGED <<clock, limit, active, zset, expireAt, rdom, rnow, grants,
                   rcalls, rticks>>
    /\ UNCHANGED nonLimiterVars

\* check_rate_limit, lines 63-67: add the timestamp, set the two-minute
\* expiry (both commands in one step), return True.
RL_Add(w) ==
    /\ rpc[w] = "add"
    /\ LET d == RateLimitKey(rdom[w])
       IN /\ zset' = [zset EXCEPT ![d] = ZAdd(@, Member(rnow[w]), rnow[w])]
          /\ expireAt' = [expireAt EXCEPT ![d] = clock + EXPIRY]
          /\ grants' = Append(grants, [dom |-> rdom[w], t |-> rnow[w]])
    /\ rpc' = [rpc EXCEPT ![w] = "idle"]
    /\ rbefore' = [rbefore EXCEPT ![w] = NoSnapshot]
    /\ UNCHANGED <<clock, limit, active, rdom, rnow, rcount, rejects, rcalls,
                   rticks>>
    /\ UNCHANGED nonLimiterVars

\* Time passes; a key whose expiry is reached is deleted by Redis.  A call
\* lasts less than a second: while one is in progress the clock passes at
\* most one second boundary per step.
RL_Tick ==
    /\ rticks < MaxTicks
    /\ \E dt \in IF \E w \in Workers : rpc[w] # "idle" THEN {1} ELSE TickSteps :
         /\ clock' = clock + dt
         /\ zset' = [d \in Domains |->
                       IF expireAt[d] # NoExpiry /\ clock' >= expireAt[d]
                       THEN {} ELSE zset[d]]
         /\ expireAt' = [d \in Domains |->
                           IF expireAt[d] # NoExpiry /\ clock' >= expireAt[d]
                           THEN NoExpiry ELSE expireAt[d]]
    /\ rticks' = rticks + 1
    /\ UNCHANGED <<limit, active, rpc, rdom, rnow, rcount, grants, rejects,
                   rcalls, rbefore>>
    /\ UNCHANGED nonLimiterVars

LimiterNext ==
    \/ \E w \in Workers : RL_Call(w)
    \/ \E w \in Workers : RL_Purge(w)
    \/ \E w \in Workers : RL_Count(w)
    \/ \E w \in Workers : RL_Add(w)
    \/ RL_Tick

(***************************************************************************)
(* The test-case synthesizer: TestCaseGenerator.generate_test_cases and    *)
(* _parse_test_cases_response.                                             *)
(***************************************************************************)
MaxSynElems == 1

\* ElementType (models/schema.py)
ElementType ==
    {"button", "input_text", "input_password", "input_email", "input_number",
     "input_checkbox", "input_radio", "select_dropdown", "textarea", "link",
     "form", "image", "heading", "paragraph", "list", "table", "label",
     "iframe", "video", "general_container"}

\* TestCaseType (models/schema.py)
TestCaseTypes == {"functional", "usability", "edge_case", "accessibility_check"}

\* UIElement.element_id values (uuid4 strings, one per extracted element)
\* and the absent related_element_id of a page-level case.
ElemId(i) == [some |-> TRUE, id |-> i]
NoElementId == [some |-> FALSE, id |-> 0]

\* A test_case_id: the text the model sent, or "TC_" + 8 hex digits of a
\* fresh uuid4 (k: the k-th token drawn in this call of generate_test_cases).
ModelId(text) == [src |-> "model", text |-> text, k |-> 0]
UuidToken(k) == [src |-> "uuid", text |-> "TC_", k |-> k]

\* The records of a model reply, as json.loads returns them.  A record says
\* which keys it has; a step likewise.
StepRec(hasNumber, n, hasAction) ==
    [has_number |-> hasNumber, step_number |-> n, has_action |-> hasAction]
Rec(hasId, id, hasSteps, steps, hasType, type) ==
    [has_id |-> hasId, test_case_id |-> id, has_steps |-> hasSteps,
     steps |-> steps, has_type |-> hasType, type |-> type,
     has_related |-> FALSE, related_element_id |-> NoElementId]

GoodRec(id) == Rec(TRUE, id, TRUE, <<StepRec(TRUE, 1, TRUE)>>, TRUE, "functional")
TwoStepRec(id) ==
    Rec(TRUE, id, TRUE, <<StepRec(TRUE, 1, TRUE), StepRec(TRUE, 2, TRUE)>>,
        TRUE, "Usability")
NoIdRec == Rec(FALSE, "", TRUE, <<StepRec(FALSE, 0, FALSE)>>, FALSE, "")
EmptyIdRec == Rec(TRUE, "", TRUE, <<StepRec(TRUE, 0, TRUE)>>, TRUE, "functional")
NoStepsRec(id) == Rec(TRUE, id, FALSE, <<>>, TRUE, "functional")
EmptyStepsRec(id) == Rec(TRUE, id, TRUE, <<>>, TRUE, "Edge_Case")
UnnumberedRec(id) ==
    Rec(TRUE, id, TRUE, <<StepRec(FALSE, 0, TRUE), StepRec(FALSE, 0, TRUE)>>,
        TRUE, "functional")
BadTypeRec(id) == Rec(TRUE, id, TRUE, <<StepRec(TRUE, 1, TRUE)>>, TRUE, "smoke")
\* A record in which the model names an element of its own invention.
ForeignRefRec(id) ==
    [GoodRec(id) EXCEPT !.has_related = TRUE, !.related_element_id = ElemId(0)]

\* What _call_llm_api can return: None (API error), text without a JSON
\* array, or text holding a JSON array of records.
NoReply == [form |-> "none", records |-> <<>>]
TextReply(records) == [form |-> "array", records |-> records]
GarbageReply == [form |-> "garbage", records |-> <<>>]

Replies ==
    {NoReply, GarbageReply, TextReply(<<>>),
     TextReply(<<GoodRec("TC_001")>>),
     TextReply(<<GoodRec("TC_001"), TwoStepRec("TC_002")>>),
     TextReply(<<GoodRec("TC_001"), GoodRec("TC_001")>>),
     TextReply(<<NoIdRec, EmptyIdRec>>),
     TextReply(<<NoStepsRec("TC_003")>>),
     TextReply(<<EmptyStepsRec("TC_004")>>),
     TextReply(<<UnnumberedRec("TC_005")>>),
     TextReply(<<GoodRec("TC_006"), BadTypeRec("TC_007")>>),
     TextReply(<<ForeignRefRec("TC_008")>>)}

\* str.lower() on the type texts of the replies.
Lower(t) ==
    IF t = "Usability" THEN "usability"
    ELSE IF t = "Edge_Case" THEN "edge_case"
    ELSE t

\* `'test_case_id' not in tc_data or not tc_data['test_case_id']`
NeedsFreshId(r) == ~r.has_id \/ r.test_case_id = ""

\* TestStep(step_number=step_data.get('step_number', 1), ...)
ParseStep(sd) ==
    [step_number |-> IF sd.has_number THEN sd.step_number ELSE 1,
     action |-> IF sd.has_action THEN "action" ELSE "No action provided"]

\* `steps = []`, filled from tc_data['steps'] when the key is there.
ParseSteps(r) ==
    IF r.has_steps THEN [i \in 1..Len(r.steps) |-> ParseStep(r.steps[i])]
    ELSE <<>>

\* TestCaseType(tc_data.get('type', 'functional').lower()) raises
\* ValueError for a text that is no member of the enumeration.
TypeText(r) == Lower(IF r.has_type THEN r.type ELSE "functional")
TypeValid(r) == TypeText(r) \in TestCaseTypes

\* A parser that takes related_element_id from the record when it has one.
RelatedElementId_FromReply(r, element_id) ==
    IF r.has_related THEN r.related_element_id ELSE element_id

\* `related_element_id=element_id`: the argument, never the record's value.
RelatedElementId(r, element_id) == element_id

\* A parser that returns the cases built before the record that raised.
RECURSIVE ParseRecords_Prefix(_, _, _)
ParseRecords_Prefix(recs, element_id, fresh) ==
    IF recs = <<>> \/ ~TypeValid(Head(recs))
    THEN [ok |-> TRUE, cases |-> <<>>, fresh |-> fresh]
    ELSE LET r == Head(recs)
             f == IF NeedsFreshId(r) THEN fresh + 1 ELSE fresh
             tc == [test_case_id |-> IF NeedsFreshId(r) THEN UuidToken(f)
                                     ELSE ModelId(r.test_case_id),
                    type |-> TypeText(r),
                    steps |-> ParseSteps(r),
                    related_element_id |-> RelatedElementId(r, element_id)]
             rest == ParseRecords_Prefix(Tail(recs), element_id, f)
         IN [ok |-> TRUE, cases |-> <<tc>> \o rest.cases, fresh |-> rest.fresh]

\* The loop of _parse_test_cases_response over the records: ok is FALSE
\* when a record raised, and then the handlers return the empty list.
RECURSIVE ParseRecords(_, _, _)
ParseRecords(recs, element_id, fresh) ==
    IF recs = <<>> THEN [ok |-> TRUE, cases |-> <<>>, fresh |-> fresh]
    ELSE LET r == Head(recs)
             f == IF NeedsFreshId(r) THEN fresh + 1 ELSE fresh
             tc == [test_case_id |-> IF NeedsFreshId(r) THEN UuidToken(f)
                                     ELSE ModelId(r.test_case_id),
                    type |-> TypeText(r),
                    steps |-> ParseSteps(r),
                    related_element_id |-> RelatedElementId(r, element_id)]
         IN IF ~TypeValid(r)
            THEN [ok |-> FALSE, cases |-> <<>>, fresh |-> f]
            ELSE LET rest == ParseRecords(Tail(recs), element_id, f)
                 IN [ok |-> rest.ok,
                     cases |-> IF rest.ok THEN <<tc>> \o rest.cases ELSE <<>>,
                     fresh |-> rest.fresh]

\* _parse_test_cases_response(response, url, element_id), given the number
\* of uuid4 tokens drawn before: the parsed cases and the tokens drawn.
ParseTestCasesResponse(reply, element_id, fresh) ==
    IF reply.form = "garbage"
    THEN [cases |-> <<>>, fresh |-> fresh]
    ELSE LET p == ParseRecords(reply.records, element_id, fresh)
         IN [cases |-> p.cases, fresh |-> p.fresh]

\* `if response:` then parse, else the empty list.
CasesOfReply(reply, element_id, fresh) ==
    IF reply.form = "none" THEN [cases |-> <<>>, fresh |-> fresh]
    ELSE ParseTestCasesResponse(reply, element_id, fresh)

\* _call_llm_api returns None without calling when no API key is set.
RepliesFor(key) == IF key THEN Replies ELSE {NoReply}

\* A synthesizer that asks the model about every element.
SkippedKind_None(kind) == FALSE

\* _generate_element_test_cases, lines 143-146: the kinds that get no call.
SkippedKind(kind) ==
    kind \in {"paragraph", "heading", "image", "video", "general_container"}
    /\ kind # "link"

\* Element lists of up to MaxOrderElems elements of two kinds.
MaxOrderElems == 2
OrderKinds == {"button", "heading"}
OrderLists == UNION {[1..n -> OrderKinds] : n \in 0..MaxOrderElems}

ElementLists ==
    UNION {[1..n -> ElementType] : n \in 0..MaxSynElems}

SynthInit ==
    /\ sKey \in BOOLEAN
    /\ \E kinds \in ElementLists :
         sElems = [i \in 1..Len(kinds) |->
                     [element_id |-> ElemId(i), element_type |-> kinds[i]]]
    /\ sPc = "page"
    /\ sIdx = 1
    /\ sAll = <<>>
    /\ sCalls = <<>>
    /\ sFresh = 0
    /\ sOut = <<>>
    /\ sLog = <<>>

\* generate_test_cases, lines 58-60: the page-level cases.
SY_Page ==
    /\ sPc = "page"
    /\ \E reply \in RepliesFor(sKey) :
         LET p == CasesOfReply(reply, NoElementId, sFresh)
         IN /\ sAll' = sAll \o p.cases
            /\ sFresh' = p.fresh
            /\ sLog' = Append(sLog, [element_id |-> NoElementId,
                                     reply |-> reply, cases |-> p.cases])
    /\ sCalls' = IF sKey THEN Append(sCalls, NoElementId) ELSE sCalls
    /\ sPc' = "elements"
    /\ UNCHANGED <<sKey, sElems, sIdx, sOut>>
    /\ UNCHANGED nonSynthVars

\* generate_test_cases, lines 63-65: the cases of element sIdx.
SY_Element ==
    /\ sPc = "elements"
    /\ sIdx <= Len(sElems)
    /\ LET e == sElems[sIdx]
       IN IF SkippedKind(e.element_type)
          THEN UNCHANGED <<sAll, sFresh, sCalls, sLog>>
          ELSE /\ \E reply \in RepliesFor(sKey) :
                    LET p == CasesOfReply(reply, e.element_id, sFresh)
                    IN /\ sAll' = sAll \o p.cases
                       /\ sFresh' = p.fresh
                       /\ sLog' = Append(sLog, [element_id |-> e.element_id,
                                                reply |-> reply,
                                                cases |-> p.cases])
               /\ sCalls' = IF sKey THEN Append(sCalls, e.element_id)
                            ELSE sCalls
    /\ sIdx' = sIdx + 1
    /\ UNCHANGED <<sKey, sElems, sPc, sOut>>
    /\ UNCHANGED nonSynthVars

\* generate_test_cases, lines 67-68: return all_test_cases.
SY_Return ==
    /\ sPc = "elements"
    /\ sIdx > Len(sElems)
    /\ sOut' = sAll
    /\ sPc' = "done"
    /\ UNCHANGED <<sKey, sElems, sIdx, sAll, sCalls, sFresh, sLog>>
    /\ UNCHANGED nonSynthVars

SynthNext ==
    \/ SY_Page
    \/ SY_Element
    \/ SY_Return

(***************************************************************************)
(* The snapshot cache: RedisClient.cache_dom_snapshot and get_dom_snapshot.*)
(***************************************************************************)
MaxCacheOps == 3
MaxCacheTicks == 2

CacheUrls == {"u1", "u2"}
Contents == {"", "<html>a</html>", "<html>b</html>"}

\* ttl_seconds: the default of 300 and a shorter one given by a caller.
CacheTtls == {60, 300}
CacheTickSteps == {1, 59, 240}

\* redis-py stores the str as its UTF-8 bytes; get returns bytes or None.
Encode(content) == [bytes |-> content]
Decode(b) == b.bytes
NoBytes == [bytes |-> "None"]

\* An Optional[str] result.
NoneResult == [some |-> FALSE, content |-> ""]
Some(content) == [some |-> TRUE, content |-> content]

\* A key that holds nothing, and SETEX key ttl value at time now.
NoEntry == [has |-> FALSE, value |-> NoBytes, expireAt |-> 0]
SetEx(value, ttl, now) == [has |-> TRUE, value |-> value, expireAt |-> now + ttl]

\* GET key at time now: the value while its TTL has not elapsed.
RedisGet(entry, now) ==
    IF entry.has /\ now < entry.expireAt THEN entry.value ELSE NoBytes

\* `if dom_content: return dom_content.decode('utf-8')`, else None: None
\* and the empty bytes are both false.
GetResult(dom_content) ==
    IF dom_content # NoBytes /\ dom_content.bytes # ""
    THEN Some(Decode(dom_content))
    ELSE NoneResult

NoPut == [some |-> FALSE, content |-> "", at |-> 0, ttl |-> 0]

CacheInit(conn) ==
    /\ cConn \in conn
    /\ cClock = 0
    /\ cStore = [u \in CacheUrls |-> NoEntry]
    /\ cPuts = [u \in CacheUrls |-> NoPut]
    /\ cLast = [op |-> "none", url |-> "u1", result |-> NoneResult]
    /\ cOps = 0
    /\ cTicks = 0

\* cache_dom_snapshot(url, dom_content, ttl_seconds)
CD_Put ==
    /\ cOps < MaxCacheOps
    /\ \E u \in CacheUrls, c \in Contents, ttl \in CacheTtls :
         /\ cStore' = IF cConn
                      THEN [cStore EXCEPT ![u] = SetEx(Encode(c), ttl, cClock)]
                      ELSE cStore
         /\ cPuts' = [cPuts EXCEPT ![u] = [some |-> TRUE, content |-> c,
                                           at |-> cClock, ttl |-> ttl]]
         /\ cLast' = [op |-> "put", url |-> u, result |-> NoneResult]
    /\ cOps' = cOps + 1
    /\ UNCHANGED <<cConn, cClock, cTicks>>
    /\ UNCHANGED nonCacheVars

\* get_dom_snapshot(url)
CD_Get ==
    /\ cOps < MaxCacheOps
    /\ \E u \in CacheUrls :
         cLast' = [op |-> "get", url |-> u,
                   result |-> IF cConn
                              THEN GetResult(RedisGet(cStore[u], cClock))
                              ELSE NoneResult]
    /\ cOps' = cOps + 1
    /\ UNCHANGED <<cConn, cClock, cStore, cPuts, cTicks>>
    /\ UNCHANGED nonCacheVars

\* Time passes.
CD_Tick ==
    /\ cTicks < MaxCacheTicks
    /\ \E dt \in CacheTickSteps : cClock' = cClock + dt
    /\ cLast' = [op |-> "tick", url |-> "u1", result |-> NoneResult]
    /\ cTicks' = cTicks + 1
    /\ UNCHANGED <<cConn, cStore, cPuts, cOps>>
    /\ UNCHANGED nonCacheVars

CacheNext ==
    \/ CD_Put
    \/ CD_Get
    \/ CD_Tick

(***************************************************************************)
(* Two jobs processed at the same time.  website_analyzer is one module-   *)
(* level instance per worker process: with a process pool (prefork) every  *)
(* job runs in a process of its own, with a thread pool both jobs run      *)
(* process_url on the same instance.  Nothing in the code fixes the pool.  *)
(***************************************************************************)
MaxJobUrls == 2

Jobs == {"j1", "j2"}
Procs == {"p1", "p2"}
Pools == {"prefork", "threads"}

\* The worker process that runs job j's process_job.
ProcOf(pool, j) == IF pool = "prefork" /\ j = "j2" THEN "p2" ELSE "p1"

\* `if not self.browser: await self.initialize()`
InstanceNeedsInitialize(p) == hBrowser[p] = "none"

\* close(): `if self.context: await self.context.close()`, likewise the
\* browser; both attributes stay assigned.
ClosedIfSet(x) == IF x # "none" THEN "closed" ELSE x

SharedInit(pools) ==
    /\ hPool \in pools
    /\ hLeft \in [Jobs -> 1..MaxJobUrls]
    /\ hPc = [j \in Jobs |-> "idle"]
    /\ hBrowser = [p \in Procs |-> "none"]
    /\ hContext = [p \in Procs |-> "none"]
    /\ hInFlight = {}
    /\ hFailed = {}

\* process_job's loop calls process_url for the job's next URL.
HJ_Start(j) ==
    /\ hPc[j] = "idle"
    /\ hLeft[j] > 0
    /\ hPc' = [hPc EXCEPT ![j] = "au_begin"]
    /\ UNCHANGED <<hPool, hLeft, hBrowser, hContext, hInFlight, hFailed>>
    /\ UNCHANGED nonSharedVars

\* analyze_url, lines 144-145: lazy initialize of the process's instance.
HJ_Begin(j) ==
    /\ hPc[j] = "au_begin"
    /\ LET p == ProcOf(hPool, j)
       IN IF InstanceNeedsInitialize(p)
          THEN /\ hBrowser' = [hBrowser EXCEPT ![p] = "live"]
               /\ hContext' = [hContext EXCEPT ![p] = "live"]
          ELSE UNCHANGED <<hBrowser, hContext>>
    /\ hPc' = [hPc EXCEPT ![j] = "au_page"]
    /\ UNCHANGED <<hPool, hLeft, hInFlight, hFailed>>
    /\ UNCHANGED nonSharedVars

\* analyze_url, line 152: self.context.new_page(); a context that is not
\* live raises and analyze_url returns (None, []).
HJ_Page(j) ==
    /\ hPc[j] = "au_page"
    /\ IF hContext[ProcOf(hPool, j)] = "live"
       THEN /\ hInFlight' = hInFlight \cup {j}
            /\ hPc' = [hPc EXCEPT ![j] = "au_goto"]
            /\ UNCHANGED hFailed
       ELSE /\ hFailed' = hFailed \cup {j}
            /\ hPc' = [hPc EXCEPT ![j] = "close"]
            /\ UNCHANGED hInFlight
    /\ UNCHANGED <<hPool, hLeft, hBrowser, hContext>>
    /\ UNCHANGED nonSharedVars

\* analyze_url, lines 158-191: navigate, extract, close the page; all of
\* it raises when the page's context has been closed meanwhile.
HJ_Goto(j) ==
    /\ hPc[j] = "au_goto"
    /\ hFailed' = IF hContext[ProcOf(hPool, j)] = "live" THEN hFailed
                  ELSE hFailed \cup {j}
    /\ hInFlight' = hInFlight \ {j}
    /\ hPc' = [hPc EXCEPT ![j] = "close"]
    /\ UNCHANGED <<hPool, hLeft, hBrowser, hContext>>
    /\ UNCHANGED nonSharedVars

\* process_url, lines 110-116: website_analyzer.close() after every URL.
HJ_Close(j) ==
    /\ hPc[j] = "close"
    /\ LET p == ProcOf(hPool, j)
       IN /\ hContext' = [hContext EXCEPT ![p] = ClosedIfSet(@)]
          /\ hBrowser' = [hBrowser EXCEPT ![p] = ClosedIfSet(@)]
    /\ hLeft' = [hLeft EXCEPT ![j] = @ - 1]
    /\ hPc' = [hPc EXCEPT ![j] = "idle"]
    /\ UNCHANGED <<hPool, hInFlight, hFailed>>
    /\ UNCHANGED nonSharedVars

SharedNext ==
    \/ \E j \in Jobs : HJ_Start(j)
    \/ \E j \in Jobs : HJ_Begin(j)
    \/ \E j \in Jobs : HJ_Page(j)
    \/ \E j \in Jobs : HJ_Goto(j)
    \/ \E j \in Jobs : HJ_Close(j)

(***************************************************************************)
(* The element classifier: WebsiteAnalyzer._extract_ui_elements and        *)
(* _process_element_handle, run on a rendered page that does not change.   *)
(***************************************************************************)
MaxNodes == 2
MaxRuns == 2

\* A DOM node: tag, type attribute (has_type FALSE: no such attribute),
\* whether it has href and role attributes, its class, its text, and
\* whether reading its properties raises (broken).
Node(tag, hasType, type, href, role, class, text, broken) ==
    [tag |-> tag, has_type |-> hasType, type |-> type, href |-> href,
     role |-> role, class |-> class, text |-> text, broken |-> broken]

Plain(tag, text) == Node(tag, FALSE, "", FALSE, FALSE, "", text, FALSE)
Input(type) == Node("input", TRUE, type, FALSE, FALSE, "", "", FALSE)

NodeSamples ==
    {Plain("button", "Save"),
     Input("submit"),
     Input("text"),
     Node("input", FALSE, "", FALSE, FALSE, "", "", FALSE),
     Input("password"),
     Input("hidden"),
     Plain("h2", "Title"),
     Node("a", FALSE, "", TRUE, FALSE, "", "Home", FALSE),
     Plain("a", "anchor"),
     Node("div", FALSE, "", FALSE, TRUE, "", "menu", FALSE),
     Node("div", FALSE, "", FALSE, FALSE, "container", "", FALSE),
     Plain("div", "text"),
     Node("button", FALSE, "", FALSE, FALSE, "", "Gone", TRUE)}

\* The keys of `selectors`, in dictionary order.
Rules ==
    <<"button", "input_text", "input_password", "input_email", "input_number",
      "input_checkbox", "input_radio", "select_dropdown", "textarea", "link",
      "form", "image", "heading", "paragraph", "list", "table", "label",
      "iframe", "video">>

\* The final pass: container_selector.
ContainerRule == "container"

\* input[type='t']
InputOfType(n, t) == n.tag = "input" /\ n.has_type /\ n.type = t

\* Whether node n matches the selector of a rule.
Matches(rule, n) ==
    CASE rule = "button" ->
            \/ n.tag = "button"
            \/ InputOfType(n, "button")
            \/ InputOfType(n, "submit")
            \/ InputOfType(n, "reset")
      [] rule = "input_text" ->
            InputOfType(n, "text") \/ (n.tag = "input" /\ ~n.has_type)
      [] rule = "input_password" -> InputOfType(n, "password")
      [] rule = "input_email" -> InputOfType(n, "email")
      [] rule = "input_number" -> InputOfType(n, "number")
      [] rule = "input_checkbox" -> InputOfType(n, "checkbox")
      [] rule = "input_radio" -> InputOfType(n, "radio")
      [] rule = "select_dropdown" -> n.tag = "select"
      [] rule = "textarea" -> n.tag = "textarea"
      [] rule = "link" -> n.tag = "a" /\ n.href
      [] rule = "form" -> n.tag = "form"
      [] rule = "image" -> n.tag = "img"
      [] rule = "heading" -> n.tag \in {"h1", "h2", "h3", "h4", "h5", "h6"}
      [] rule = "paragraph" -> n.tag = "p"
      [] rule = "list" -> n.tag \in {"ul", "ol"}
      [] rule = "table" -> n.tag = "table"
      [] rule = "label" -> n.tag = "label"
      [] rule = "iframe" -> n.tag = "iframe"
      [] rule = "video" -> n.tag = "video"
      [] rule = ContainerRule ->
            \/ (n.tag \in {"div", "span"} /\ n.role)
            \/ (n.tag = "div" /\ n.class \in {"container", "section", "content"})
      [] OTHER -> FALSE

\* A classifier that files every node as a container.
KindOfRule_AllContainers(rule) == "general_container"

\* getattr(ElementType, element_type_str.upper(), GENERAL_CONTAINER); the
\* final pass passes GENERAL_CONTAINER itself.
KindOfRule(rule) ==
    IF rule \in ElementType THEN rule ELSE "general_container"

\* page.query_selector_all(selector): the positions of the matching nodes,
\* in document order.
RECURSIVE QuerySelectorAll(_, _, _)
QuerySelectorAll(rule, pg, from) ==
    IF from > Len(pg) THEN <<>>
    ELSE (IF Matches(rule, pg[from]) THEN <<from>> ELSE <<>>)
         \o QuerySelectorAll(rule, pg, from + 1)

\* An identifier that does not change from handle to handle.
NewElementId_Constant(fresh) == ElemId(1)

\* str(uuid.uuid4()): the identifier after `fresh` earlier ones.
NewElementId(fresh) == ElemId(fresh + 1)

\* The selector of a node without id, name and data-testid attributes: the
\* tag followed by its classes.
SelectorOf(n) == [tag |-> n.tag, classes |-> n.class]
AttributesOf(n) ==
    [has_type |-> n.has_type, type |-> n.type, href |-> n.href,
     role |-> n.role, class |-> n.class]
\* A text that is only read by the first extraction of a page.
VisibleText_FirstRunOnly(n) == IF eRuns = <<>> THEN n.text ELSE ""

\* element.textContent?.trim() || null
VisibleText(n) == n.text

\* The UIElement _process_element_handle builds for the node at position
\* h (handle: which node it was built from).
UiElement(pg, h, kind, fresh) ==
    [element_id |-> NewElementId(fresh), element_type |-> kind,
     selector |-> SelectorOf(pg[h]), attributes |-> AttributesOf(pg[h]),
     visible_text |-> VisibleText(pg[h]), handle |-> h]

\* An inner loop that gives up the rule's remaining handles at the first
\* node that cannot be read.
RECURSIVE ProcessHandles_AbortOnFailure(_, _, _, _)
ProcessHandles_AbortOnFailure(pg, handles, kind, fresh) ==
    IF handles = <<>> \/ pg[Head(handles)].broken
    THEN [elems |-> <<>>, fresh |-> fresh + Len(handles)]
    ELSE LET rest == ProcessHandles_AbortOnFailure(pg, Tail(handles), kind,
                                                   fresh + 1)
         IN [elems |-> <<UiElement(pg, Head(handles), kind, fresh)>>
                          \o rest.elems,
             fresh |-> rest.fresh]

\* The inner loop over the handles of one rule: a node whose properties
\* cannot be read gives None and is skipped; its uuid is drawn all the
\* same.
RECURSIVE ProcessHandles(_, _, _, _)
ProcessHandles(pg, handles, kind, fresh) ==
    IF handles = <<>> THEN [elems |-> <<>>, fresh |-> fresh]
    ELSE LET h == Head(handles)
             rest == ProcessHandles(pg, Tail(handles), kind, fresh + 1)
         IN [elems |-> (IF pg[h].broken THEN <<>>
                        ELSE <<UiElement(pg, h, kind, fresh)>>) \o rest.elems,
             fresh |-> rest.fresh]

\* One rule: a query that raises is logged and the rule contributes
\* nothing.
ExtractRule(pg, rule, bad, fresh) ==
    IF rule \in bad THEN [elems |-> <<>>, fresh |-> fresh]
    ELSE ProcessHandles(pg, QuerySelectorAll(rule, pg, 1), KindOfRule(rule),
                        fresh)

\* An outer loop that puts the elements of a later rule in front.
RECURSIVE ExtractRules_LaterRuleFirst(_, _, _, _)
ExtractRules_LaterRuleFirst(pg, rules, bad, fresh) ==
    IF rules = <<>> THEN [elems |-> <<>>, fresh |-> fresh]
    ELSE LET first == ExtractRule(pg, Head(rules), bad, fresh)
             rest == ExtractRules_LaterRuleFirst(pg, Tail(rules), bad,
                                                 first.fresh)
         IN [elems |-> rest.elems \o first.elems, fresh |-> rest.fresh]

\* The outer loop over the rules, then the final container pass.
RECURSIVE ExtractRules(_, _, _, _)
ExtractRules(pg, rules, bad, fresh) ==
    IF rules = <<>> THEN [elems |-> <<>>, fresh |-> fresh]
    ELSE LET first == ExtractRule(pg, Head(rules), bad, fresh)
             rest == ExtractRules(pg, Tail(rules), bad, first.fresh)
         IN [elems |-> first.elems \o rest.elems, fresh |-> rest.fresh]

ExtractUiElements(pg, bad, fresh) ==
    ExtractRules(pg, Rules \o <<ContainerRule>>, bad, fresh)

Pages == UNION {[1..n -> NodeSamples] : n \in 0..MaxNodes}
\* The rules whose query raises on this page.
BadRuleSets == {{}, {"button"}, {"heading"}, {ContainerRule}}

ExtractInit(pages, bads) ==
    /\ ePage \in pages
    /\ eBadRules \in bads
    /\ eFresh = 0
    /\ eRuns = <<>>

\* One call of _extract_ui_elements on the page.
EX_Extract ==
    /\ Len(eRuns) < MaxRuns
    /\ LET r == ExtractUiElements(ePage, eBadRules, eFresh)
       IN /\ eRuns' = Append(eRuns, r.elems)
          /\ eFresh' = r.fresh
    /\ UNCHANGED <<ePage, eBadRules>>
    /\ UNCHANGED nonExtractVars

ExtractNext ==
    \/ EX_Extract

(***************************************************************************)
(* Job submission: POST /jobs (api/app.py create_job) with                 *)
(* MongoDB.create_job, and the start of the enqueued process_job run.      *)
(***************************************************************************)
MaxSubmits == 2

NoJob == 0
ApiOutcomes == {"ok", "insert_fail", "enqueue_fail", "read_fail"}

\* The HTTP answer of create_job: JobResponse(job_id, PENDING, ...) or the
\* HTTPException of the handler.
JobResponse(job_id) == [code |-> "200", job_id |-> job_id, status |-> PENDING]
ErrorResponse == [code |-> "500", job_id |-> NoJob, status |-> "none"]

\* A handler that schedules the run before the record exists.
Enqueued_BeforeInsert(o) == o # "enqueue_fail"

\* Whether the handler gets past insert_one, past delay, past get_job.
Inserted(o) == o # "insert_fail"
Enqueued(o) == o \notin {"insert_fail", "enqueue_fail"}
Answered(o) == o = "ok"

ApiInit ==
    /\ aJobs = [j \in 1..MaxSubmits |-> "absent"]
    /\ aQueue = <<>>
    /\ aEnqueued = <<>>
    /\ aStarted = {}
    /\ aResp = <<>>
    /\ aOutcomes = <<>>

\* One POST /jobs, lines 68-92: insert the record with status pending,
\* process_job.delay(job_id), read the record back, answer.  Any exception
\* becomes HTTP 500; what was done before it stays done.
API_CreateJob ==
    /\ Len(aResp) < MaxSubmits
    /\ \E o \in ApiOutcomes :
         LET job_id == Len(aResp) + 1
         IN /\ aJobs' = IF Inserted(o) THEN [aJobs EXCEPT ![job_id] = PENDING]
                        ELSE aJobs
            /\ aQueue' = IF Enqueued(o) THEN Append(aQueue, job_id) ELSE aQueue
            /\ aEnqueued' = IF Enqueued(o) THEN Append(aEnqueued, job_id)
                            ELSE aEnqueued
            /\ aResp' = Append(aResp, IF Answered(o) THEN JobResponse(job_id)
                                      ELSE ErrorResponse)
            /\ aOutcomes' = Append(aOutcomes, o)
    /\ UNCHANGED aStarted
    /\ UNCHANGED nonApiVars

\* A worker takes the next run off the queue: process_job starts.
WK_StartRun ==
    /\ aQueue # <<>>
    /\ aStarted' = aStarted \cup {Head(aQueue)}
    /\ aQueue' = Tail(aQueue)
    /\ UNCHANGED <<aJobs, aEnqueued, aResp, aOutcomes>>
    /\ UNCHANGED nonApiVars

\* process_job, line 150 or 161-186: a started run writes a status.
WK_UpdateStatus ==
    /\ \E j \in aStarted, st \in {PROCESSING, COMPLETED, FAILED} :
         /\ aJobs[j] # "absent"
         /\ aJobs[j] \notin Terminal
         /\ aJobs' = [aJobs EXCEPT ![j] = st]
    /\ UNCHANGED <<aQueue, aEnqueued, aStarted, aResp, aOutcomes>>
    /\ UNCHANGED nonApiVars

ApiNext ==
    \/ API_CreateJob
    \/ WK_StartRun
    \/ WK_UpdateStatus

(***************************************************************************)
(* Authentication setup: WebsiteAnalyzer._setup_authentication on the page *)
(* analyze_url has just opened, followed by the navigation.                *)
(***************************************************************************)
None == "None"
BlankPage == "about:blank"
TargetUrls == {"https://a.example/", "https://b.example/app"}

\* auth_config: None, or a dict read with .get(); a missing key and an
\* empty value both read as false.
NoAuthConfig == [auth_type |-> None, username |-> None, password |-> None,
                 token_type |-> None, token_name |-> None, token_value |-> None]
AuthConfigs ==
    [auth_type : {None, "basic", "session_token", "oauth"},
     username : {None, "user"}, password : {None, "pw"},
     token_type : {None, "cookie", "bearer", "query"},
     token_name : {None, "sid"}, token_value : {None, "tok"}]

\* auth_config.get("auth_type", "basic")
AuthType(c) == IF c.auth_type = None THEN "basic" ELSE c.auth_type

\* `if token_type and token_name and token_value`
TokenComplete(c) ==
    c.token_type # None /\ c.token_name # None /\ c.token_value # None

UsesCookie(c) ==
    c # NoAuthConfig /\ AuthType(c) = "session_token" /\ TokenComplete(c)
    /\ c.token_type = "cookie"
UsesBearer(c) ==
    c # NoAuthConfig /\ AuthType(c) = "session_token" /\ TokenComplete(c)
    /\ c.token_type = "bearer"
UsesBasic(c) ==
    c # NoAuthConfig /\ AuthType(c) = "basic"
    /\ c.username # None /\ c.password # None

\* The cookie of lines 91-95: "url" is page.url, the address the page
\* shows when the call is made.
CookieFor(c, page_url) ==
    [name |-> c.token_name, value |-> c.token_value, url |-> page_url]
\* The header of lines 100-102.
BearerHeader(c) == [name |-> c.token_name, value |-> <<"Bearer", c.token_value>>]

AuthInit ==
    /\ tkConfig \in AuthConfigs
    /\ tkUrl \in TargetUrls
    /\ tkPc = "start"
    /\ tkPageUrl = None
    /\ tkCookies = {}
    /\ tkHeaders = {}
    /\ tkCreds = None

\* analyze_url, line 153: context.new_page() gives a blank page.
AT_NewPage ==
    /\ tkPc = "start"
    /\ tkPageUrl' = BlankPage
    /\ tkPc' = "page"
    /\ UNCHANGED <<tkConfig, tkUrl, tkCookies, tkHeaders, tkCreds>>
    /\ UNCHANGED nonAuthVars

\* _setup_authentication, lines 72-108.  The browser may refuse or accept
\* a cookie for the blank page; a refusal is logged and raised again.
AT_SetupAuthentication ==
    /\ tkPc = "page"
    /\ \E accepted \in BOOLEAN :
         IF UsesCookie(tkConfig)
         THEN IF accepted
              THEN /\ tkCookies' = tkCookies
                                     \cup {CookieFor(tkConfig, tkPageUrl)}
                   /\ tkPc' = "authed"
                   /\ UNCHANGED <<tkHeaders, tkCreds>>
              ELSE /\ tkPc' = "raised"
                   /\ UNCHANGED <<tkCookies, tkHeaders, tkCreds>>
         ELSE /\ tkHeaders' = IF UsesBearer(tkConfig)
                              THEN tkHeaders \cup {BearerHeader(tkConfig)}
                              ELSE tkHeaders
              /\ tkCreds' = IF UsesBasic(tkConfig)
                            THEN <<tkConfig.username, tkConfig.password>>
                            ELSE tkCreds
              /\ tkPc' = "authed"
              /\ UNCHANGED tkCookies
    /\ UNCHANGED <<tkConfig, tkUrl, tkPageUrl>>
    /\ UNCHANGED nonAuthVars

\* analyze_url, line 159: page.goto(url).
AT_Goto ==
    /\ tkPc = "authed"
    /\ tkPageUrl' = tkUrl
    /\ tkPc' = "navigated"
    /\ UNCHANGED <<tkConfig, tkUrl, tkCookies, tkHeaders, tkCreds>>
    /\ UNCHANGED nonAuthVars

AuthNext ==
    \/ AT_NewPage
    \/ AT_SetupAuthentication
    \/ AT_Goto

(***************************************************************************)
(* One job's URLs crawled in turn: the rate-limit value of the job record, *)
(* the admission check of analyze_url with its sleep, and the navigation.  *)
(***************************************************************************)
MaxNavUrls == 3
MaxNavTicks == 2

NavTickSteps == {1, 59}

\* process_url calls analyze_url(url, auth_config): the rate_limit
\* parameter keeps its default, DEFAULT_RATE_LIMIT_REQUESTS_PER_MINUTE of
\* the worker's configuration; the job's stored rate_limit is not read.
RateLimitUsed(stored, default) == default

\* Redis deletes a key whose expiry is reached.
KeysAt(z, e, t) ==
    [d \in Domains |-> IF e[d] # NoExpiry /\ t >= e[d] THEN {} ELSE z[d]]
ExpiriesAt(e, t) ==
    [d \in Domains |-> IF e[d] # NoExpiry /\ t >= e[d] THEN NoExpiry ELSE e[d]]

CrawlInit(lists) ==
    /\ nDefault \in 1..MaxLimit
    /\ nStored \in 1..MaxLimit
    /\ nUrls \in lists
    /\ nIdx = 1
    /\ nPc = "check"
    /\ nClock = 0
    /\ nZset = [d \in Domains |-> {}]
    /\ nExpire = [d \in Domains |-> NoExpiry]
    /\ nNavs = <<>>
    /\ nChecks = <<>>
    /\ nTicks = 0

\* analyze_url, lines 139-142, with check_rate_limit run in one piece (one
\* caller): purge, count, reject or record; a rejected caller sleeps 60 s.
NV_Check ==
    /\ nPc = "check"
    /\ nIdx <= Len(nUrls)
    /\ LET d == nUrls[nIdx]
           requests_per_minute == RateLimitUsed(nStored, nDefault)
           z == ZRemRangeByScore(nZset[d], 0, nClock - WINDOW)
           admitted == ~LimitReached(ZCard(z), requests_per_minute)
           zs == [nZset EXCEPT ![d] = IF admitted
                                      THEN ZAdd(z, Member(nClock), nClock)
                                      ELSE z]
           es == [nExpire EXCEPT ![d] = IF admitted THEN nClock + EXPIRY
                                        ELSE IF z = {} THEN NoExpiry ELSE @]
           t == IF admitted THEN nClock ELSE nClock + 60
       IN /\ nChecks' = Append(nChecks,
                 [dom |-> d, t |-> nClock, limit |-> requests_per_minute,
                  admitted |-> admitted])
          /\ nClock' = t
          /\ nZset' = KeysAt(zs, es, t)
          /\ nExpire' = ExpiriesAt(es, t)
    /\ nPc' = "goto"
    /\ UNCHANGED <<nDefault, nStored, nUrls, nIdx, nNavs, nTicks>>
    /\ UNCHANGED nonCrawlVars

\* analyze_url, line 159: the navigation is issued; process_job then turns
\* to the next URL.
NV_Goto ==
    /\ nPc = "goto"
    /\ nNavs' = Append(nNavs, [dom |-> nUrls[nIdx], t |-> nClock])
    /\ nIdx' = nIdx + 1
    /\ nPc' = "check"
    /\ UNCHANGED <<nDefault, nStored, nUrls, nClock, nZset, nExpire, nChecks,
                   nTicks>>
    /\ UNCHANGED nonCrawlVars

\* Time passes while a page is loaded and analysed.
NV_Tick ==
    /\ nTicks < MaxNavTicks
    /\ nIdx <= Len(nUrls)
    /\ \E dt \in NavTickSteps :
         /\ nClock' = nClock + dt
         /\ nZset' = KeysAt(nZset, nExpire, nClock + dt)
         /\ nExpire' = ExpiriesAt(nExpire, nClock + dt)
    /\ nTicks' = nTicks + 1
    /\ UNCHANGED <<nDefault, nStored, nUrls, nIdx, nPc, nNavs, nChecks>>
    /\ UNCHANGED nonCrawlVars

CrawlNext ==
    \/ NV_Check
    \/ NV_Goto
    \/ NV_Tick

(***************************************************************************)
(* Specifications.  Each machine's specification keeps the other           *)
(* machines in their initial, idle state.                                  *)
(***************************************************************************)
JobIdle == JobInit(FALSE) /\ urls = <<>>
LimiterIdle == LimiterInit({}) /\ limit = 1
SynthIdle == SynthInit /\ sKey = FALSE /\ sElems = <<>>
CacheIdle == CacheInit({TRUE})
SharedIdle == SharedInit({"prefork"}) /\ hLeft = [j \in Jobs |-> 1]
ExtractIdle == ExtractInit({<<>>}, {{}})
AuthIdle == AuthInit /\ tkConfig = NoAuthConfig /\ tkUrl = "https://a.example/"
CrawlIdle == CrawlInit({<<>>}) /\ nDefault = 1 /\ nStored = 1
\* The worker's synthesizer between calls, its API key set or not: the
\* worker process never validates LLM_API_KEY.
SynthAtRest == SynthInit /\ sElems = <<>>

JobNext ==
    \/ PJ_Begin
    \/ PJ_Except
    \/ PU_Begin
    \/ AU_Begin
    \/ AU_Page
    \/ AU_Goto
    \/ AU_Read
    \/ AU_Store
    \/ AU_Finally
    \/ PU_After
    \/ PJ_Finalize

\* The job orchestrator; status updates may fail to reach the store.
Init == JobInit(TRUE) /\ LimiterIdle /\ SynthAtRest /\ CacheIdle
    /\ SharedIdle /\ ExtractIdle /\ ApiInit /\ AuthIdle /\ CrawlIdle
Next == JobNext
Spec == Init /\ [][Next]_vars

\* The orchestrator under a worker that keeps taking steps: every browser,
\* model and store call of the run returns or raises.
SpecLive == Init /\ [][Next]_vars /\ WF_vars(Next)

\* The orchestrator with a document store that every status update reaches.
InitStoreOk == JobInit(FALSE) /\ LimiterIdle /\ SynthAtRest /\ CacheIdle
    /\ SharedIdle /\ ExtractIdle /\ ApiInit /\ AuthIdle /\ CrawlIdle
SpecStoreOk == InitStoreOk /\ [][Next]_vars

\* The rate limiter called by one worker at a time.
InitLimiter == LimiterInit({"w1"}) /\ JobIdle /\ SynthIdle /\ CacheIdle
    /\ SharedIdle /\ ExtractIdle /\ ApiInit /\ AuthIdle /\ CrawlIdle
SpecLimiter == InitLimiter /\ [][LimiterNext]_vars

\* The rate limiter called by several workers, their steps interleaved.
InitLimiterConc == LimiterInit(Workers) /\ JobIdle /\ SynthIdle /\ CacheIdle
    /\ SharedIdle /\ ExtractIdle /\ ApiInit /\ AuthIdle /\ CrawlIdle
SpecLimiterConc == InitLimiterConc /\ [][LimiterNext]_vars

\* The synthesizer: one call of generate_test_cases.
InitSynth == SynthInit /\ JobIdle /\ LimiterIdle /\ CacheIdle
    /\ SharedIdle /\ ExtractIdle /\ ApiInit /\ AuthIdle /\ CrawlIdle
SpecSynth == InitSynth /\ [][SynthNext]_vars

\* The synthesizer with its API key set, called on longer lists of a kind
\* that gets a model call and a kind that gets none.
InitSynthOrder ==
    /\ sKey = TRUE
    /\ \E kinds \in OrderLists :
         sElems = [i \in 1..Len(kinds) |->
                     [element_id |-> ElemId(i), element_type |-> kinds[i]]]
    /\ sPc = "page" /\ sIdx = 1 /\ sAll = <<>> /\ sCalls = <<>>
    /\ sFresh = 0 /\ sOut = <<>> /\ sLog = <<>>
    /\ JobIdle /\ LimiterIdle /\ CacheIdle /\ SharedIdle /\ ExtractIdle
    /\ ApiInit /\ AuthIdle /\ CrawlIdle
SpecSynthOrder == InitSynthOrder /\ [][SynthNext]_vars

\* The snapshot cache: any sequence of puts and gets as time passes.
InitCache == CacheInit(BOOLEAN) /\ JobIdle /\ LimiterIdle /\ SynthIdle
    /\ SharedIdle /\ ExtractIdle /\ ApiInit /\ AuthIdle /\ CrawlIdle
SpecCache == InitCache /\ [][CacheNext]_vars

\* Two jobs processed at the same time, in either pool.
InitShared == SharedInit(Pools) /\ JobIdle /\ LimiterIdle /\ SynthIdle
    /\ CacheIdle /\ ExtractIdle /\ ApiInit /\ AuthIdle /\ CrawlIdle
SpecShared == InitShared /\ [][SharedNext]_vars

\* The element classifier called repeatedly on one unchanged page.
InitExtract == ExtractInit(Pages, BadRuleSets) /\ JobIdle /\ LimiterIdle
    /\ SynthIdle /\ CacheIdle /\ SharedIdle /\ ApiInit /\ AuthIdle /\ CrawlIdle
SpecExtract == InitExtract /\ [][ExtractNext]_vars

\* Job submission and the start of the enqueued runs.
InitApi == ApiInit /\ JobIdle /\ LimiterIdle /\ SynthIdle /\ CacheIdle
    /\ SharedIdle /\ ExtractIdle /\ AuthIdle /\ CrawlIdle
SpecApi == InitApi /\ [][ApiNext]_vars

\* Authentication setup for every auth_config and target address.
InitAuth == AuthInit /\ ApiInit /\ JobIdle /\ LimiterIdle /\ SynthIdle
    /\ CacheIdle /\ SharedIdle /\ ExtractIdle /\ CrawlIdle
SpecAuth == InitAuth /\ [][AuthNext]_vars

\* One job's URLs crawled in turn under the rate limiter.
NavLists == UNION {[1..n -> Domains] : n \in 0..MaxNavUrls}
InitCrawl == CrawlInit(NavLists) /\ AuthIdle /\ ApiInit /\ JobIdle
    /\ LimiterIdle /\ SynthIdle /\ CacheIdle /\ SharedIdle /\ ExtractIdle
SpecCrawl == InitCrawl /\ [][CrawlNext]_vars

(***************************************************************************)
(* Claims about the job orchestrator.                                      *)
(***************************************************************************)
Finished == pc = "done" /\ ret.kind = "summary"

C5_LiveContextForEveryUrl ==
    pc = "au_page" => context = "live"

\* C6: a URL whose analysis yields zero elements is recorded as failed for
\* that URL only: every listed URL is still attempted and the results list
\* holds exactly one outcome per listed URL, in order.
C6_ZeroElementsFailOneUrl ==
    /\ \A i \in zeroAt :
          /\ i <= Len(results)
          /\ results[i].status = "failed"
          /\ results[i].url = urls[i]
    /\ Finished =>
          /\ Len(results) = Len(urls)
          /\ attempted = 1..Len(urls)
          /\ \A i \in 1..Len(urls) : results[i].url = urls[i]

C6_Witness ==
    /\ Finished
    /\ Len(urls) >= 2
    /\ 1 \in zeroAt
    /\ results[1].error = NoElementsError(urls[1])
    /\ 2 \in attempted

\* C7 (as stated): when process_job's exception handler has run, the
\* function has returned a 'failed' summary and the stored status is Failed
\* with a message containing the exception text.
C7_Original ==
    (pc = "done" /\ ret.kind = "error") =>
        /\ ret.status = "failed"
        /\ jobStatus = FAILED
        /\ jobMessage.text = exc

\* C7 (amended): process_job returns a 'failed' summary carrying the
\* exception text, and when the handler's status update reached the store
\* the stored status is Failed with a message containing that text.
C7_ErrorPathMarksFailed ==
    (pc = "done" /\ ret.kind = "error") =>
        /\ ret.status = "failed"
        /\ ret.error.text = exc
        /\ lastUpdate =>
              /\ jobStatus = FAILED
              /\ jobMessage = JobErrorMessage(exc)
              /\ jobMessage.text = exc

C7_Witness ==
    /\ pc = "done"
    /\ ret.kind = "error"
    /\ lastUpdate
    /\ jobStatus = FAILED
    /\ exc = Exc("Job not found: job_id", 0)

\* The failures analyze_url meets inside its try block.
InTryFailures ==
    {"newpage_exc", "auth_exc", "nav_exc", "no_response", "http_error",
     "title_exc", "store_exc"}
PageCloseRaised == auRet = AuRaise(Exc("page close failed", 0))

\* C8 (as stated): analyze_url never raises, and returns (None, []) after
\* no response, a status >= 400 or an exception in authentication,
\* navigation, title, extraction or snapshot store.
C8_Original ==
    pc = "pu_after" =>
        /\ auRet.kind = "return"
        /\ auEvent \in InTryFailures => auRet = NoneEmpty

\* C8 (amended): after no response, a status >= 400 or an exception inside
\* the try block, analyze_url returns (None, []) unless closing the page
\* raises; analyze_url raises exactly when the snapshot lookup or
\* rate-limit check, the browser initialization or the page close raises.
C8_FailuresGiveNoneEmpty ==
    pc = "pu_after" =>
        /\ auRet.kind \in {"return", "raise"}
        /\ auEvent \in InTryFailures => (auRet = NoneEmpty \/ PageCloseRaised)
        /\ auRet.kind = "raise" <=>
              (auEvent \in {"redis_exc", "init_exc"} \/ PageCloseRaised)

C8_Witness ==
    /\ pc = "pu_after"
    /\ auEvent = "http_error"
    /\ page = "closed"
    /\ auRet = NoneEmpty

\* C3: with one caller at a time and a fixed limit, no call for a domain
\* returns True when `limit` earlier calls for that domain have returned
\* True within the 60 seconds before it, several in one clock second
\* included (t: the clock reading of a call).  Checked under SpecLimiter.
C3_LimitEnforced ==
    \A i \in DOMAIN grants :
        Cardinality({j \in 1..(i - 1) :
                        /\ grants[j].dom = grants[i].dom
                        /\ grants[i].t - grants[j].t < WINDOW}) < limit

\* The calls for domain d that returned True and read the clock in the 60
\* seconds ending at time t.
GrantsInWindow(d, t) ==
    {i \in DOMAIN grants :
        /\ grants[i].dom = d
        /\ grants[i].t <= t
        /\ t - grants[i].t < WINDOW}

\* C4: with the purge, count and add steps of several workers' calls
\* interleaved, no 60-second window of a domain holds more than `limit`
\* calls that returned True, and every admission of the last 60 seconds is
\* an entry of the domain's recorded set.  Checked under SpecLimiterConc.
C4_ConcurrentLimitEnforced ==
    \A d \in Domains :
        /\ \A i \in DOMAIN grants :
               Cardinality(GrantsInWindow(d, grants[i].t)) <= limit
        /\ ZCard(zset[d]) >= Cardinality(GrantsInWindow(d, clock))

\* C9: the test_case_id values of the list generate_test_cases returns
\* (page-level cases and the cases of every element) are pairwise
\* distinct.  Checked under SpecSynth.
C9_IdsPairwiseDistinct ==
    sPc = "done" =>
        \A i, j \in DOMAIN sOut :
            i # j => sOut[i].test_case_id # sOut[j].test_case_id

\* C10: every TestCase that _parse_test_cases_response returned has at
\* least one step.  Checked under SpecSynth.
C10_EveryCaseHasAStep ==
    \A i \in DOMAIN sAll : Len(sAll[i].steps) >= 1

\* C11: in every TestCase that _parse_test_cases_response returned, the
\* step numbers are 1, 2, 3, ... in list order (so each is >= 1 and they
\* are unique and contiguous), whatever step_number values the model sent.
\* Checked under SpecSynth.
C11_StepNumbersContiguous ==
    \A i \in DOMAIN sAll :
        \A k \in DOMAIN sAll[i].steps : sAll[i].steps[k].step_number = k

\* A reply that json.loads accepts and whose records all pass validation.
ReplyValid(reply) ==
    /\ reply.form = "array"
    /\ \A k \in DOMAIN reply.records : TypeValid(reply.records[k])

\* The page-level cases gathered so far.
PageLevelCases == {i \in DOMAIN sAll : sAll[i].related_element_id = NoElementId}

\* C12: for every model reply the parser returns one TestCase per record,
\* in order, when the reply parses and every record is valid, and the empty
\* list otherwise (never a prefix of the records); an invalid page-level
\* reply leaves the page-level test-case count at 0.  Checked under
\* SpecSynth.
C12_AllOrNothing ==
    /\ \A i \in DOMAIN sLog :
          LET reply == sLog[i].reply
              cases == sLog[i].cases
          IN IF ReplyValid(reply)
             THEN /\ Len(cases) = Len(reply.records)
                  /\ \A k \in DOMAIN cases :
                        /\ cases[k].steps = ParseSteps(reply.records[k])
                        /\ cases[k].related_element_id = sLog[i].element_id
             ELSE cases = <<>>
    /\ (sLog # <<>> /\ ~ReplyValid(sLog[1].reply)) => PageLevelCases = {}

\* A reply with a valid record followed by an invalid one was parsed, and
\* an unparseable page-level reply was received.
C12_Witness ==
    /\ sPc = "done"
    /\ \E i \in DOMAIN sLog :
          /\ sLog[i].reply.form = "array"
          /\ Len(sLog[i].reply.records) = 2
          /\ TypeValid(sLog[i].reply.records[1])
          /\ ~TypeValid(sLog[i].reply.records[2])
          /\ sLog[i].cases = <<>>
    /\ sLog[1].reply = GarbageReply

\* The model calls made for the element with identifier id.
CallsFor(id) == {k \in DOMAIN sCalls : sCalls[k] = id}

\* The elements the for-loop of generate_test_cases has dealt with.
ElementsDone == {i \in DOMAIN sElems : i < sIdx}

\* C13: for an element of kind heading, paragraph, image, video or
\* general_container no model call is made and no case is returned; for an
\* element of any other kind exactly one model call is made.  Checked
\* under SpecSynth.
C13_KindExclusion ==
    \A i \in ElementsDone :
        LET e == sElems[i]
        IN IF e.element_type \in {"heading", "paragraph", "image", "video",
                                  "general_container"}
           THEN /\ CallsFor(e.element_id) = {}
                /\ \A k \in DOMAIN sAll :
                      sAll[k].related_element_id # e.element_id
           ELSE Cardinality(CallsFor(e.element_id)) = 1

\* The element_id values of the element list that process_url hands to
\* generate_test_cases and stores as identified_elements.
ElementIds == {sElems[i].element_id : i \in DOMAIN sElems}

\* C14: in the result of one URL every test case's related_element_id is
\* absent or the element_id of an element of the same result, and it is
\* absent exactly for the cases of the page-level reply, whatever the
\* replies contain.  Checked under SpecSynth.
C14_RelatedElementExists ==
    /\ \A k \in DOMAIN sAll :
          \/ sAll[k].related_element_id = NoElementId
          \/ sAll[k].related_element_id \in ElementIds
    /\ \A i \in DOMAIN sLog :
          \A k \in DOMAIN sLog[i].cases :
              /\ sLog[i].cases[k].related_element_id = sLog[i].element_id
              /\ (sLog[i].cases[k].related_element_id = NoElementId) <=> (i = 1)

\* generate_test_cases returned a case built from a record in which the
\* model named an element that is not on the page, next to a page-level
\* case.
C14_Witness ==
    /\ sPc = "done"
    /\ \E i \in DOMAIN sLog :
          /\ i > 1
          /\ sLog[i].reply = TextReply(<<ForeignRefRec("TC_008")>>)
          /\ sLog[i].cases # <<>>
    /\ PageLevelCases # {}

\* What get_dom_snapshot(u) is to return at time now: the content of the
\* latest cache_dom_snapshot for u while its TTL has not elapsed.
Expected(u, now) ==
    IF cPuts[u].some /\ now < cPuts[u].at + cPuts[u].ttl
    THEN Some(cPuts[u].content)
    ELSE NoneResult

\* C15: with a connected client, get_dom_snapshot(url) returns exactly the
\* content of the most recent cache_dom_snapshot for that URL while its TTL
\* has not elapsed, the empty string included, and nothing otherwise.
\* Checked under SpecCache.
C15_GetReturnsLatestPut ==
    (cConn /\ cLast.op = "get") => cLast.result = Expected(cLast.url, cClock)

\* The calls for domain d that returned True and read the clock in the 60
\* seconds up to and including time t.
RecentGrants(d, t) ==
    {j \in DOMAIN grants :
        /\ grants[j].dom = d
        /\ grants[j].t <= t
        /\ t - grants[j].t < WINDOW}

\* C16: with one caller at a time, a call for a domain that has admitted
\* nothing during the 60 seconds before it finds the window empty and
\* returns True, however full the window was before: no call is rejected
\* without an admission in the 60 seconds before it.  Checked under
\* SpecLimiter.
C16_QuietMinuteReopens ==
    /\ \A i \in DOMAIN rejects :
          RecentGrants(rejects[i].dom, rejects[i].t) # {}
    /\ \A w \in Workers :
          (rpc[w] = "add" /\ RecentGrants(rdom[w], rnow[w]) = {})
              => rcount[w] = 0

\* A domain was at its limit (a call was rejected) and a call made 60
\* seconds or more after that was admitted.
C16_Witness ==
    \E i \in DOMAIN rejects, j \in DOMAIN grants :
        /\ grants[j].dom = rejects[i].dom
        /\ grants[j].t >= rejects[i].t + WINDOW
        /\ RecentGrants(grants[j].dom, grants[j].t) = {j}

\* C17: process_job handles the URLs one after another in list order: the
\* URLs started are a prefix of the list, a URL is started only when the
\* outcomes of all URLs before it are recorded, and results[i] is the
\* outcome of urls[i].  Checked under Spec.
C17_SequentialInOrder ==
    /\ Len(results) <= Len(urls)
    /\ \A i \in DOMAIN results : results[i].url = urls[i]
    /\ \A i \in attempted : i \in DOMAIN urls /\ i <= Len(results) + 1
    /\ \A i \in DOMAIN results : i \in attempted
    /\ pc \in {"au_begin", "au_page", "au_goto", "au_read", "au_store",
               "au_finally", "pu_after"}
          => idx = Len(results) + 1 /\ idx \in attempted

\* The second URL is being analysed with exactly the first URL's outcome
\* recorded, a completed one.
C17_Witness ==
    /\ pc = "au_page"
    /\ idx = 2
    /\ Len(results) = 1
    /\ results[1].status = "completed"
    /\ results[1].url = urls[1]

\* The job had the single URL u, analyze_url returned a title and an empty
\* element list for it, and process_job has returned its summary.
ZeroElementsScenario ==
    /\ Finished
    /\ Len(urls) = 1
    /\ auRet.kind = "return"
    /\ auRet.title # NoTitle
    /\ auRet.elems = 0

C19_NoProcessingWithoutCredential ==
    ~sKey =>
        /\ pc \notin {"au_goto", "au_read", "au_store"}
        /\ docs = {}
        /\ jobStatus # COMPLETED

\* C20: when two jobs are processed at the same time, the close() at the
\* end of one job's URL never closes the browser context that the other
\* job's in-flight analyze_url is using: a job with a page open always has
\* a live context.  Checked under SpecShared.
C20_OwnSessionPerJob ==
    \A j \in hInFlight : hContext[ProcOf(hPool, j)] = "live"

\* What the spec compares between extractions: everything but the id.
ElementTuple(e) ==
    [kind |-> e.element_type, selector |-> e.selector,
     attributes |-> e.attributes, visible_text |-> e.visible_text]

\* C21: the elements returned by one _extract_ui_elements call have
\* pairwise distinct element_id values.  Checked under SpecExtract.
C21_ElementIdsDistinct ==
    \A r \in DOMAIN eRuns :
        \A i, j \in DOMAIN eRuns[r] :
            i # j => eRuns[r][i].element_id # eRuns[r][j].element_id

\* A call returned two elements that differ in nothing but their id.
C21_Witness ==
    \E r \in DOMAIN eRuns :
        \E i, j \in DOMAIN eRuns[r] :
            /\ i # j
            /\ ElementTuple(eRuns[r][i]) = ElementTuple(eRuns[r][j])

\* The kind the rule table gives a node, read off the node itself.
ExpectedKind(n) ==
    IF n.tag = "button" THEN "button"
    ELSE IF n.tag = "input"
    THEN (IF ~n.has_type \/ n.type = "text" THEN "input_text"
          ELSE IF n.type \in {"button", "submit", "reset"} THEN "button"
          ELSE IF n.type = "password" THEN "input_password"
          ELSE IF n.type = "email" THEN "input_email"
          ELSE IF n.type = "number" THEN "input_number"
          ELSE IF n.type = "checkbox" THEN "input_checkbox"
          ELSE IF n.type = "radio" THEN "input_radio"
          ELSE "unmatched")
    ELSE IF n.tag \in {"h1", "h2", "h3", "h4", "h5", "h6"} THEN "heading"
    ELSE IF n.tag = "a" THEN (IF n.href THEN "link" ELSE "unmatched")
    ELSE IF n.tag = "select" THEN "select_dropdown"
    ELSE IF n.tag = "img" THEN "image"
    ELSE IF n.tag = "p" THEN "paragraph"
    ELSE IF n.tag \in {"ul", "ol"} THEN "list"
    ELSE IF n.tag \in {"textarea", "form", "table", "label", "iframe", "video"}
    THEN n.tag
    ELSE IF n.tag \in {"div", "span"} THEN "general_container"
    ELSE "unmatched"

\* C22: every element produced by _extract_ui_elements has a kind of the
\* 20-member enumeration, the one of the rule that matches its node:
\* h1..h6 heading, button and input of type button/submit/reset button,
\* text-typed and type-less input input_text, ..., and general_container
\* for the nodes of the final container pass.  Checked under SpecExtract.
C22_KindOfMatchingRule ==
    \A r \in DOMAIN eRuns :
        \A i \in DOMAIN eRuns[r] :
            LET e == eRuns[r][i]
            IN /\ e.element_type \in ElementType
               /\ e.element_type = ExpectedKind(ePage[e.handle])

\* A call classified an input of type submit as a button next to a
\* container of the final pass.
C22_Witness ==
    \E r \in DOMAIN eRuns :
        \E i, j \in DOMAIN eRuns[r] :
            /\ eRuns[r][i].element_type = "button"
            /\ ePage[eRuns[r][i].handle].tag = "input"
            /\ eRuns[r][j].element_type = "general_container"

\* How often the tuple t occurs among the elements of a run.
TupleCount(run, t) == Cardinality({i \in DOMAIN run : ElementTuple(run[i]) = t})
RunIds(run) == {run[i].element_id : i \in DOMAIN run}

RunsFor(j) == Cardinality({k \in DOMAIN aEnqueued : aEnqueued[k] = j})

\* No job's status leaves Pending before its run has started.
PendingUntilRunStarts ==
    \A j \in DOMAIN aJobs :
        aJobs[j] \notin {"absent", PENDING} => j \in aStarted

\* C24 (as stated): every POST /jobs creates one Pending record, enqueues
\* exactly one process_job run with its id and answers with that id and
\* status 'pending'; the status stays Pending until that run starts.
C24_Original ==
    /\ \A r \in DOMAIN aResp :
          /\ aResp[r] = JobResponse(r)
          /\ aJobs[r] # "absent"
          /\ RunsFor(r) = 1
    /\ PendingUntilRunStarts

\* C24 (amended): a POST /jobs that is answered with a job id has created
\* that one record with status Pending and enqueued exactly one run with
\* its id, and no status leaves Pending before its run starts; a POST
\* whose insert, enqueue or read-back raises is answered with HTTP 500,
\* with what was done before the failure left in place (no record; a
\* Pending record without a run; a record with its run).  Checked under
\* SpecApi.
C24_SubmissionCreatesAndEnqueues ==
    /\ \A r \in DOMAIN aResp :
          /\ aResp[r].code = "200" =>
                /\ aResp[r] = JobResponse(r)
                /\ aJobs[r] # "absent"
                /\ RunsFor(r) = 1
          /\ aResp[r].code = "500" =>
                /\ aOutcomes[r] # "ok"
                /\ (aOutcomes[r] = "insert_fail")
                       <=> (aJobs[r] = "absent")
                /\ RunsFor(r) = IF aOutcomes[r] = "read_fail" THEN 1 ELSE 0
          /\ RunsFor(r) <= 1
          /\ RunsFor(r) = 1 => aJobs[r] # "absent"
    /\ \A j \in DOMAIN aJobs :
          (j > Len(aResp)) => aJobs[j] = "absent" /\ RunsFor(j) = 0
    /\ PendingUntilRunStarts

\* A submission was answered with its job id, its run has started and
\* moved the job on, while a second submission is still Pending in the
\* queue.
C24_Witness ==
    /\ Len(aResp) = 2
    /\ aResp[1] = JobResponse(1)
    /\ aResp[2] = JobResponse(2)
    /\ aJobs[1] = PROCESSING
    /\ aJobs[2] = PENDING
    /\ aQueue = <<2>>

\* The steps named s in the current analyze_url call.
StepsNamed(s) == {k \in DOMAIN auTrace : auTrace[k].step = s}

\* The current analyze_url call was rejected by the limiter.
RateRejected ==
    \E k \in DOMAIN auTrace : auTrace[k] = Step("rate_check", "false")

\* analyze_url has left lines 131-152 behind.
PastRateLimit == pc \in {"au_goto", "au_read", "au_store", "au_finally",
                         "pu_after"}

\* C25: when check_rate_limit rejects the domain, analyze_url sleeps
\* exactly once (60 s) right after the one check and goes on with the URL
\* (initialize or page acquisition, then navigation): it asks the limiter
\* no second time and does not give the URL up at the sleep.  Checked
\* under Spec.
C25_OneSleepThenProceed ==
    /\ Cardinality(StepsNamed("rate_check")) <= 1
    /\ RateRejected =>
          /\ Cardinality(StepsNamed("sleep60")) = 1
          /\ \A k \in StepsNamed("rate_check") :
                /\ k + 1 \in StepsNamed("sleep60")
                /\ PastRateLimit =>
                      /\ Len(auTrace) > k + 1
                      /\ auTrace[k + 2].step \in {"initialize", "new_page"}
          /\ \A k \in StepsNamed("goto") :
                k > 2 /\ \E j \in StepsNamed("sleep60") : j < k
    /\ ~RateRejected => StepsNamed("sleep60") = {}

\* A rejected call has slept once and navigated successfully.
C25_Witness ==
    /\ RateRejected
    /\ pc = "au_read"
    /\ \E k \in StepsNamed("goto") : auTrace[k].res = "ok"

\* The current analyze_url call has opened a page.
PageOpened == \E k \in DOMAIN auTrace : auTrace[k] = Step("new_page", "ok")

\* No analyze_url call is between new_page() and the end of its finally
\* clause.
OutsideCall == pc \notin {"au_page", "au_goto", "au_read", "au_store",
                          "au_finally"}

\* C27 (as stated): every page analyze_url opened is closed when it
\* returns or raises, on every path, so no page is open between two calls.
C27_Original == OutsideCall => page # "open"

\* C27 (amended): on every path on which analyze_url opened a page
\* (success, authentication error, navigation error, no response or HTTP
\* error status, title or extraction error, snapshot-store error) its
\* finally clause calls page.close() once, as the last step before it
\* returns or raises; the page is then closed unless page.close() itself
\* raised, in which case analyze_url raises that exception and the page is
\* left as it was.  Checked under Spec.
C27_PageCloseAlwaysAttempted ==
    /\ (pc = "pu_after" /\ PageOpened) =>
          /\ auTrace[Len(auTrace)].step = "page_close"
          /\ Cardinality(StepsNamed("page_close")) = 1
          /\ (auTrace[Len(auTrace)].res = "ok") <=> (page = "closed")
    /\ (pc = "pu_after" /\ ~PageOpened) =>
          /\ page = "none"
          /\ StepsNamed("page_close") = {}
    /\ (OutsideCall /\ page = "open") => PageCloseRaised

\* A call that failed after opening its page (here: in authentication)
\* has returned with the page closed.
C27_Witness ==
    /\ pc = "pu_after"
    /\ auEvent = "auth_exc"
    /\ page = "closed"
    /\ auRet = NoneEmpty

\* The place of each step in the order of analyze_url's body.
StepRank(s) ==
    CASE s = "cache_lookup" -> 0
      [] s = "rate_check"   -> 1
      [] s = "sleep60"      -> 2
      [] s = "initialize"   -> 3
      [] s = "new_page"     -> 4
      [] s = "auth"         -> 5
      [] s = "goto"         -> 6
      [] s = "settle"       -> 7
      [] s = "title"        -> 8
      [] s = "extract"      -> 9
      [] s = "content"      -> 10
      [] s = "cache_store"  -> 11
      [] s = "page_close"   -> 12

\* A step that ended the normal course of the call.
StepFailed(st) == st.res \in {"raise", "rejected"}

NavigationSucceeded == \E k \in StepsNamed("goto") : auTrace[k].res = "ok"

\* C28: within one analyze_url call the steps run in the order rate-limit
\* check, page acquisition, authentication, navigation, settle delay,
\* title, extraction, snapshot store, page close, each at most once;
\* extraction and snapshot store happen only after a successful
\* navigation; after a failed step nothing but the page close follows.
\* Checked under Spec.
C28_StepsInOrder ==
    /\ \A j, k \in DOMAIN auTrace :
          j < k => StepRank(auTrace[j].step) < StepRank(auTrace[k].step)
    /\ (StepsNamed("extract") \cup StepsNamed("content")
           \cup StepsNamed("cache_store")) # {} => NavigationSucceeded
    /\ \A j, k \in DOMAIN auTrace :
          (j < k /\ StepFailed(auTrace[j])) =>
              /\ k = j + 1
              /\ auTrace[k].step = "page_close"
    /\ \A k \in DOMAIN auTrace :
          (StepFailed(auTrace[k]) /\ pc # "pu_after") => pc = "au_finally"

\* A complete successful call: snapshot lookup, the rate-limit check,
\* initialize and the eight steps from page acquisition to snapshot store
\* (the markup read included), the page close last.
C28_Witness ==
    /\ pc = "pu_after"
    /\ Len(auTrace) = 12
    /\ auTrace[2] = Step("rate_check", "true")
    /\ auTrace[11] = Step("cache_store", "ok")
    /\ auTrace[12] = Step("page_close", "ok")
    /\ auRet.kind = "return"

\* The entries of z that a purge at time now leaves: those newer than
\* 60 seconds.
NotOlderThanWindow(z, now) == {e \in z : e.score > now - 60}

\* A key deleted by its expiry while a call runs.
ExpiredSince(before, d) ==
    /\ zset'[d] = {}
    /\ expireAt'[d] = NoExpiry
    /\ before.expireAt[d] # NoExpiry
    /\ clock >= before.expireAt[d]

\* C26: a check_rate_limit call that returns False records nothing: when
\* it returns, its domain's sorted set is the set found at call entry
\* without the entries older than 60 seconds and the key's expiry is the
\* one found at call entry, and every other domain's set and expiry are as
\* they were (or deleted by their own expiry meanwhile); no step of any
\* call changes the set or the expiry of a domain other than its own.
\* Checked for one caller at a time under SpecLimiter.
C26_RejectedCallRecordsNothing ==
    [][\A w \in Workers :
          /\ (rpc[w] = "count" /\ rpc'[w] = "idle") =>
                /\ zset'[rdom[w]] =
                       NotOlderThanWindow(rbefore[w].zset[rdom[w]], rnow[w])
                /\ expireAt'[rdom[w]] = rbefore[w].expireAt[rdom[w]]
                /\ grants' = grants
                /\ \A o \in Domains \ {rdom[w]} :
                      \/ /\ zset'[o] = rbefore[w].zset[o]
                         /\ expireAt'[o] = rbefore[w].expireAt[o]
                      \/ ExpiredSince(rbefore[w], o)
          /\ rpc'[w] # rpc[w] =>
                \A o \in Domains \ {rdom'[w]} :
                    zset'[o] = zset[o] /\ expireAt'[o] = expireAt[o]
      ]_vars

\* A call for one domain was rejected while that domain and another one
\* both hold recorded timestamps.
C26_Witness ==
    /\ \E k \in DOMAIN rejects : rejects[k].dom = "b.example"
    /\ zset["a.example"] # {}
    /\ zset["b.example"] # {}
    /\ \A w \in Workers : rpc[w] = "idle"

\* _setup_authentication has run for the page.
AuthSetupDone == tkPc \in {"authed", "raised", "navigated"}

\* C29: with a complete session token of token_type 'cookie' the cookie
\* set before navigation is scoped to the address being analysed and no
\* header is set; with token_type 'bearer' the header is set and no
\* cookie; so exactly one of the two is applied.
C29_CookieScopedToTarget ==
    AuthSetupDone =>
        /\ UsesCookie(tkConfig) =>
              /\ tkCookies = {CookieFor(tkConfig, tkUrl)}
              /\ tkHeaders = {}
        /\ UsesBearer(tkConfig) =>
              /\ tkHeaders = {BearerHeader(tkConfig)}
              /\ tkCookies = {}

\* The (node, rule) pairs of the page that can be processed: the rule's
\* query works, it matches the node and the node can be read.
Processable ==
    {hr \in (DOMAIN ePage) \X
            ({Rules[i] : i \in DOMAIN Rules} \cup {ContainerRule}) :
        /\ hr[2] \notin eBadRules
        /\ Matches(hr[2], ePage[hr[1]])
        /\ ~ePage[hr[1]].broken}

\* C30: a node that cannot be processed and a rule whose query raises are
\* skipped alone: every call returns a list that holds exactly one
\* element, of the rule's kind, for every other matched node, and nothing
\* else.  Checked under SpecExtract.
C30_FailuresSkipOnlyThemselves ==
    \A r \in DOMAIN eRuns :
        /\ \A hr \in Processable :
              Cardinality({i \in DOMAIN eRuns[r] :
                              /\ eRuns[r][i].handle = hr[1]
                              /\ eRuns[r][i].element_type = KindOfRule(hr[2])})
                  = 1
        /\ Len(eRuns[r]) = Cardinality(Processable)

\* A call met a node it could not read and returned the node the same
\* rule matched after it.
C30_Witness ==
    /\ Len(ePage) = 2
    /\ ePage[1].broken
    /\ ~ePage[2].broken
    /\ ePage[1].tag = ePage[2].tag
    /\ eRuns # <<>>
    /\ \E i \in DOMAIN eRuns[1] : eRuns[1][i].handle = 2

\* The place in the evaluation order of the rule that gave an element its
\* kind: the position in the table, the container pass after the table.
RuleRank(e) ==
    IF \E i \in DOMAIN Rules : KindOfRule(Rules[i]) = e.element_type
    THEN CHOOSE i \in DOMAIN Rules : KindOfRule(Rules[i]) = e.element_type
    ELSE Len(Rules) + 1

\* C31: the list returned by _extract_ui_elements is ordered by rule
\* evaluation order: elements of an earlier rule of the table precede
\* those of a later rule, the container pass comes last, and within one
\* rule the elements keep the order of the query (document order).
\* Checked under SpecExtract.
C31_OrderedByRule ==
    \A r \in DOMAIN eRuns :
        \A i, j \in DOMAIN eRuns[r] :
            i < j =>
                \/ RuleRank(eRuns[r][i]) < RuleRank(eRuns[r][j])
                \/ /\ RuleRank(eRuns[r][i]) = RuleRank(eRuns[r][j])
                   /\ eRuns[r][i].handle < eRuns[r][j].handle

\* A call returned a node ahead of one that stands before it in the
\* document: rule order, not document order.
C31_Witness ==
    \E r \in DOMAIN eRuns :
        \E i, j \in DOMAIN eRuns[r] :
            /\ i < j
            /\ eRuns[r][i].handle > eRuns[r][j].handle
            /\ RuleRank(eRuns[r][j]) <= Len(Rules)

\* The navigations issued to the domain of navigation i in the 60 seconds
\* that end with it.
NavsInWindow(i) ==
    {j \in DOMAIN nNavs :
        /\ nNavs[j].dom = nNavs[i].dom
        /\ nNavs[j].t > nNavs[i].t - 60
        /\ nNavs[j].t <= nNavs[i].t}

C35_ChecksUseStoredLimit ==
    \A k \in DOMAIN nChecks : nChecks[k].limit = nStored

\* C33: a URL's outcome is 'completed' exactly when an analysis document
\* was persisted for it, so success_count is the number of documents
\* stored for the job; in particular a teardown failure after a
\* successful save leaves the outcome 'completed'.
C33_CompletedIffPersisted ==
    /\ \A i \in DOMAIN results :
          (results[i].status = "completed") <=> (i \in docs)
    /\ Finished => ret.success_count = Cardinality(docs)

\* C34: a job's stored status is Completed only if at least one of its
\* URLs produced a 'completed' outcome; a job without URLs does not end
\* Completed.
C34_CompletedNeedsASuccess ==
    jobStatus = COMPLETED =>
        \E i \in DOMAIN results : results[i].status = "completed"

\* C36: every check_rate_limit call that returns True increases the
\* number of entries recorded for its domain by exactly one, also when
\* several calls are admitted within the same clock second.
C36_GrantAddsOneEntry ==
    [][\A w \in Workers :
          (rpc[w] = "add" /\ rpc'[w] = "idle") =>
              ZCard(zset'[rdom[w]]) = ZCard(zset[rdom[w]]) + 1
      ]_vars

\* C37: every process_job run that has set the job to Processing
\* eventually writes a terminal status (Completed or Failed) for it, also
\* when a store update or the teardown fails.  Checked under SpecLive.
C37_ProcessingLeadsToTerminal ==
    (jobStatus = PROCESSING) ~> (jobStatus \in Terminal)

\* analyze_url has returned at least one element for the current URL.
ElementsFound ==
    pc = "pu_after" /\ auRet.kind = "return" /\ auRet.elems > 0

\* C38: a URL that yielded at least one element is recorded 'completed'
\* and its document is persisted whatever the number of test cases, zero
\* included; such a URL fails only when the save or the teardown of the
\* browser raises, never for an empty test-case list.  Checked under
\* Spec.
C38_NoTestCasesStillCompleted ==
    [][ElementsFound =>
          LET o == results'[Len(results')]
          IN \/ /\ o.status = "completed"
                /\ o.element_count = auRet.elems
                /\ idx \in docs'
             \/ /\ o.status = "failed"
                /\ o.error.kind \in {"save failed", "analyzer close failed"}
      ]_vars

\* A URL with an element and no test case was recorded completed and its
\* document stored.
C38_Witness ==
    \E i \in DOMAIN results :
        /\ results[i].status = "completed"
        /\ results[i].element_count > 0
        /\ results[i].test_case_count = 0
        /\ i \in docs

\* The kinds the spec excludes from element-level synthesis.
ExcludedKinds ==
    {"paragraph", "heading", "image", "video", "general_container"}

\* The ids of the elements of a non-excluded kind, in list order.
RECURSIVE IncludedIds(_)
IncludedIds(elems) ==
    IF elems = <<>> THEN <<>>
    ELSE (IF Head(elems).element_type \in ExcludedKinds THEN <<>>
          ELSE <<Head(elems).element_id>>) \o IncludedIds(Tail(elems))

\* The cases of the logged calls, one call after the other.
RECURSIVE CasesInCallOrder(_)
CasesInCallOrder(log) ==
    IF log = <<>> THEN <<>>
    ELSE Head(log).cases \o CasesInCallOrder(Tail(log))

\* C39: with a credential, one generate_test_cases call on n elements of
\* which k have a non-excluded kind makes exactly 1 + k model calls, the
\* page-level call first and then one per such element in list order; the
\* returned list is the per-call results put together in that order, and
\* a missing or unparseable reply empties only its own call's part.
\* Checked under SpecSynthOrder.
C39_CallsAndCasesInOrder ==
    sPc = "done" =>
        /\ sCalls = <<NoElementId>> \o IncludedIds(sElems)
        /\ Len(sLog) = Len(sCalls)
        /\ \A i \in DOMAIN sLog :
              /\ sLog[i].element_id = sCalls[i]
              /\ ~ReplyValid(sLog[i].reply) => sLog[i].cases = <<>>
        /\ sOut = CasesInCallOrder(sLog)

\* Three model calls were made for a list of two elements: the first
\* element's reply was unusable, the page-level call and the second
\* element still gave their cases, in that order.
C39_Witness ==
    /\ sPc = "done"
    /\ Len(sElems) = 2
    /\ Len(sCalls) = 3
    /\ sLog[1].cases # <<>>
    /\ sLog[2].cases = <<>>
    /\ sLog[3].cases # <<>>
    /\ sOut = sLog[1].cases \o sLog[3].cases

=============================================================================
